---- MODULE Spec2Model ----
(***************************************************************************)
(* Model of the AICI conversational RAG agent.                             *)
(*                                                                         *)
(*   Part I   incremental document sync: DocumentRegistry,                 *)
(*            DocumentSyncService, the vector index it mutates and the     *)
(*            PDF folder it reads (agent/app/document_registry.py,         *)
(*            sync_service.py, vector_store.py, ingestion.py).             *)
(*   Part II  the answer pipeline: the LangGraph workflow of               *)
(*            graph_lc/graph_builder.py and graph_lc/nodes.py, driven by   *)
(*            run_answer and stream_answer_ndjson of rag/orchestrator.py.  *)
(***************************************************************************)
EXTENDS Integers, Sequences, FiniteSets, TLC

VARIABLES
    files,      \* the PDF folder: file name -> content (ingestion.get_pdf_files)
    records,    \* DocumentRegistry.records: source_id -> DocumentRecord
    disk,       \* the registry file: [state, data]
    index,      \* the Chroma collection: chunk id -> hash of the content it was cut from
    pc,         \* position of the sync / force_reingest call in progress
    runKind,    \* "none", "sync", "force_one", "force_all"
    delMissing, \* the delete_missing argument of the run
    todo,       \* documents the processing loop has not reached yet
    dtodo,      \* deleted sources the delete loop has not reached yet
    cur,        \* source_id being processed (a one-element or empty sequence)
    curStatus,  \* status of cur as returned by registry.get_status
    curOld,     \* the record of cur when its processing began (sequence, as cur)
    saveRet,    \* where the caller continues when _save returns
    result,     \* the SyncResult of the run in progress
    status,     \* per source: the status get_status returned in this run
    outcome,    \* per source: how its processing ended in this run
    startRecs,  \* records when the run began
    lastRun,    \* summary of the last completed run
    prevRun,    \* summary of the completed run before lastRun
    edits,      \* folder changes made so far
    runs,       \* runs started so far
    faults,     \* index operations that failed so far
    crashed,    \* the process died and has not been restarted
    crashes,    \* process deaths so far
    boot,       \* what DocumentRegistry._load did when the registry was constructed
    diskPrev    \* the registry file as it was before the last open(path, "w")

syncVars == <<files, records, disk, index, pc, runKind, delMissing, todo, dtodo,
              cur, curStatus, curOld, saveRet, result, status, outcome,
              startRecs, lastRun, prevRun, edits, runs, faults, crashed,
              crashes, boot, diskPrev>>

-----------------------------------------------------------------------------
(* Bounds *)

MaxEdits == 2
MaxRuns == 2
MaxFaults == 1
MaxCrashes == 1

-----------------------------------------------------------------------------
(* The document folder *)

Sources == {"a.pdf", "b.pdf"}

\* A content is one version of a file's bytes.  What the sync needs of it is
\* its page layout: per page of the PDF the number of chunks the splitter
\* cuts from that page's text, 0 for a page with no extractable text.
Contents == {"c1", "c2", "c3", "c4"}

PageLayout(c) ==
    CASE c = "c1" -> <<1>>
      [] c = "c2" -> <<2>>
      [] c = "c3" -> <<0, 1>>
      [] c = "c4" -> <<0>>
      [] c = "c5" -> <<2>>

\* source.replace('.pdf', '')
Stem(source) ==
    CASE source = "a.pdf" -> "a"
      [] source = "b.pdf" -> "b"

\* compute_hash: SHA-256 of the bytes; distinct contents, distinct digests.
compute_hash(c) == <<"sha256", c>>

\* extract_text_from_pdf: the pages with text, numbered from 1.
RECURSIVE PagesFrom(_, _)
PagesFrom(layout, p) ==
    IF p > Len(layout) THEN <<>>
    ELSE IF layout[p] > 0
         THEN <<[page_num |-> p, nchunks |-> layout[p]]>> \o PagesFrom(layout, p + 1)
         ELSE PagesFrom(layout, p + 1)

extract_text_from_pdf(c) == PagesFrom(PageLayout(c), 1)

\* chunk_pages: one id per chunk, f"{stem}_{page_num:03d}_{chunk_counter:04d}";
\* chunk_counter runs over the whole document and is not reset per page.
RECURSIVE ChunksOfPage(_, _, _, _)
ChunksOfPage(stem, page_num, n, counter) ==
    IF n = 0 THEN <<>>
    ELSE <<(<<stem, page_num, counter + 1>>)>> \o ChunksOfPage(stem, page_num, n - 1, counter + 1)

RECURSIVE ChunkPagesFrom(_, _, _, _)
ChunkPagesFrom(stem, pages, i, counter) ==
    IF i > Len(pages) THEN <<>>
    ELSE ChunksOfPage(stem, pages[i].page_num, pages[i].nchunks, counter)
         \o ChunkPagesFrom(stem, pages, i + 1, counter + pages[i].nchunks)

chunk_pages(source, pages) == ChunkPagesFrom(Stem(source), pages, 1, 0)

SeqToSet(s) == {s[i] : i \in 1..Len(s)}

-----------------------------------------------------------------------------
(* DocumentRegistry *)

EmptyRegistry == [s \in {} |-> [version |-> 0]]

RegistryPut(r, s, rec) == [x \in (DOMAIN r) \cup {s} |-> IF x = s THEN rec ELSE r[x]]
RegistryDel(r, s) == [x \in (DOMAIN r) \ {s} |-> r[x]]

\* get_status without the hash comparison: a registered document is never
\* UNCHANGED.
get_status_never_unchanged(r, source_id, content_hash) ==
    IF source_id \notin DOMAIN r THEN "new" ELSE "updated"

\* get_status that reports a document without a record as UPDATED
get_status_new_as_updated(r, source_id, content_hash) ==
    IF source_id \notin DOMAIN r THEN "updated"
    ELSE IF r[source_id].content_hash = content_hash THEN "unchanged"
    ELSE "updated"

\* get_status
get_status(r, source_id, content_hash) ==
    IF source_id \notin DOMAIN r THEN "new"
    ELSE IF r[source_id].content_hash = content_hash THEN "unchanged"
    ELSE "updated"

\* get_deleted_sources with the difference taken the other way round
get_deleted_sources_reversed(r, current_sources) == current_sources \ (DOMAIN r)

\* get_deleted_sources
get_deleted_sources(r, current_sources) == (DOMAIN r) \ current_sources

\* get_chunk_ids
get_chunk_ids(r, source_id) ==
    IF source_id \in DOMAIN r THEN r[source_id].chunk_ids ELSE <<>>

\* The record register() stores, without the version increment
NewRecord_same_version(r, source_id, content_hash, chunk_ids, page_count) ==
    [source_id    |-> source_id,
     content_hash |-> content_hash,
     chunk_ids    |-> chunk_ids,
     version      |-> IF source_id \in DOMAIN r THEN r[source_id].version ELSE 1,
     page_count   |-> page_count,
     chunk_count  |-> Len(chunk_ids)]

\* The record register() stores.
NewRecord(r, source_id, content_hash, chunk_ids, page_count) ==
    [source_id    |-> source_id,
     content_hash |-> content_hash,
     chunk_ids    |-> chunk_ids,
     version      |-> IF source_id \in DOMAIN r THEN r[source_id].version + 1 ELSE 1,
     page_count   |-> page_count,
     chunk_count  |-> Len(chunk_ids)]

\* The registry file.  open(path, "w") truncates it; json.dump then writes
\* the whole of records into it.
DiskMissing == [state |-> "missing", data |-> EmptyRegistry]
DiskTruncated == [state |-> "truncated", data |-> EmptyRegistry]
DiskComplete(r) == [state |-> "complete", data |-> r]

\* json.load over the registry file: a file that open(path, "w") truncated
\* and json.dump did not finish is not a JSON document
json_load(d) == [ok |-> d.state = "complete", data |-> d.data]

\* _load with the except clause left out
_load_uncaught(d) ==
    IF d.state = "missing"
    THEN [blob |-> d.state, records |-> EmptyRegistry, raised |-> FALSE,
          log |-> "info: No existing registry, starting fresh"]
    ELSE LET j == json_load(d)
         IN  IF j.ok
             THEN [blob |-> d.state, records |-> j.data, raised |-> FALSE,
                   log |-> "info: Loaded registry"]
             ELSE [blob |-> d.state, records |-> EmptyRegistry, raised |-> TRUE,
                   log |-> "none"]

\* _load: the records the registry starts with, the line it logs, and whether
\* an exception leaves the constructor
_load(d) ==
    IF d.state = "missing"
    THEN [blob |-> d.state, records |-> EmptyRegistry, raised |-> FALSE,
          log |-> "info: No existing registry, starting fresh"]
    ELSE LET j == json_load(d)
         IN  IF j.ok
             THEN [blob |-> d.state, records |-> j.data, raised |-> FALSE,
                   log |-> "info: Loaded registry"]
             ELSE [blob |-> d.state, records |-> EmptyRegistry, raised |-> FALSE,
                   log |-> "warning: Failed to load registry, starting fresh"]

-----------------------------------------------------------------------------
(* The vector index *)

EmptyIndex == [i \in {} |-> <<"sha256", "c1">>]

\* collection.add: an id that is already in the collection is left as it is.
IndexAdd(ix, ids, tag) ==
    [i \in (DOMAIN ix) \cup ids |-> IF i \in DOMAIN ix THEN ix[i] ELSE tag]

\* collection.delete(ids=...)
IndexDelete(ix, ids) == [i \in (DOMAIN ix) \ ids |-> ix[i]]

-----------------------------------------------------------------------------
(* SyncResult *)

EmptyResult ==
    [new_documents |-> 0, updated_documents |-> 0, unchanged_documents |-> 0,
     deleted_documents |-> 0, total_chunks_added |-> 0, total_chunks_deleted |-> 0,
     errors |-> <<>>]

NoStatus == [s \in Sources |-> "none"]

NoRun == [kind |-> "none", delete_missing |-> FALSE, files |-> [s \in {} |-> "c1"],
          status |-> NoStatus, outcome |-> NoStatus,
          before |-> EmptyRegistry, after |-> EmptyRegistry,
          indexAfter |-> EmptyIndex, nerrors |-> 0, nfaults |-> 0]

-----------------------------------------------------------------------------
(* Part II.  Questions as token sequences.                                 *)
(*                                                                         *)
(* A question is the sequence of its words; a punctuation mark is a token  *)
(* of its own that is written without a space before it (an opening quote  *)
(* without a space after it).  The classifiers of the source work on the   *)
(* stripped, lower-cased string with substring tests; here a keyword is in *)
(* the string when some token contains it, and a phrase is in the string   *)
(* when adjacent tokens carry its words.                                   *)

TrailPunct == {"?", "!", ",", ".", ";", ":"}
Quote == "'"
Punct == TrailPunct \cup {Quote}

\* str.lower() on the tokens of the vocabulary
Lower(t) ==
    CASE t = "Hi" -> "hi"
      [] t = "Thanks" -> "thanks"
      [] t = "What" -> "what"
      [] t = "Does" -> "does"
      [] t = "How" -> "how"
      [] t = "Highway" -> "highway"
      [] t = "Plot" -> "plot"
      [] t = "Boundary" -> "boundary"
      [] t = "Walls" -> "walls"
      [] t = "Doors" -> "doors"
      [] t = "Principal-elevation" -> "principal-elevation"
      [] OTHER -> t

\* text.strip().lower()
Normalize(q) == [i \in 1..Len(q) |-> Lower(q[i])]

\* The keywords of the source's tables that occur inside a longer token.
Inner(t) ==
    CASE t = "fronts" -> {"front"}
      [] t = "fronting" -> {"front"}
      [] t = "layers" -> {"layer"}
      [] t = "walls" -> {"wall"}
      [] t = "doors" -> {"door"}
      [] t = "meant" -> {"mean"}
      [] t = "meaning" -> {"mean"}
      [] t = "needs" -> {"need"}
      [] t = "needed" -> {"need"}
      [] t = "highways" -> {"highway"}
      [] t = "regulations" -> {"regulation"}
      [] t = "principal-elevation" -> {"elevation", "principal"}
      [] OTHER -> {}

Contains(t, kw) == t = kw \/ kw \in Inner(t)

\* A pattern: the words w, adjacent; start: at the start of the string;
\* pre: a space before it; post: a space after it.  Without post the last
\* word may continue inside its token.
Kw(w) == [w |-> <<w>>, start |-> FALSE, pre |-> FALSE, post |-> FALSE]
Phrase(w) == [w |-> w, start |-> FALSE, pre |-> FALSE, post |-> FALSE]
PhraseSp(w) == [w |-> w, start |-> FALSE, pre |-> FALSE, post |-> TRUE]
Prefix(w) == [w |-> w, start |-> TRUE, pre |-> FALSE, post |-> TRUE]
SpPhrase(w) == [w |-> w, start |-> FALSE, pre |-> TRUE, post |-> FALSE]
SpPhraseSp(w) == [w |-> w, start |-> FALSE, pre |-> TRUE, post |-> TRUE]

SpaceAfter(n, k) == k < Len(n) /\ n[k + 1] \notin TrailPunct
SpaceBefore(n, i) == i > 1 /\ n[i - 1] # Quote

MatchAt(p, n, i) ==
    /\ p.start => i = 1
    /\ p.pre => SpaceBefore(n, i)
    /\ i + Len(p.w) - 1 <= Len(n)
    /\ \A j \in 1..Len(p.w) :
          IF j = Len(p.w) /\ ~p.post
          THEN Contains(n[i + j - 1], p.w[j])
          ELSE n[i + j - 1] = p.w[j]
    /\ p.post => SpaceAfter(n, i + Len(p.w) - 1)

Match(p, n) == \E i \in 1..Len(n) : MatchAt(p, n, i)
AnyMatch(ps, n) == \E p \in ps : Match(p, n)

-----------------------------------------------------------------------------
(* smalltalk.py *)

DOMAIN_KEYWORDS == {"property", "highway", "plot", "boundary", "elevation",
                    "planning", "development", "wall", "window", "door",
                    "json", "layer"}

SMALLTALK_MAX_WORDS == 4

SMALLTALK_PHRASES ==
    {<<"hi">>, <<"hello">>, <<"hey">>, <<"hey", "there">>, <<"hi", "there">>,
     <<"good", "morning">>, <<"good", "afternoon">>, <<"good", "evening">>,
     <<"morning">>, <<"afternoon">>, <<"evening">>, <<"good", "day">>,
     <<"thanks">>, <<"thank", "you">>, <<"thx">>, <<"thanks", "!">>,
     <<"thank", "you", "!">>, <<"how", "are", "you">>,
     <<"how", "are", "you", "doing">>, <<"how's", "it", "going">>,
     <<"how", "do", "you", "do">>, <<"greetings">>, <<"howdy">>}

\* message.split(): a punctuation mark belongs to the word it is written on
WordCount(n) == Cardinality({i \in 1..Len(n) : n[i] \notin Punct})

RECURSIVE _strip_trailing_punctuation(_)
_strip_trailing_punctuation(n) ==
    IF n # <<>> /\ n[Len(n)] \in TrailPunct
    THEN _strip_trailing_punctuation(SubSeq(n, 1, Len(n) - 1))
    ELSE n

is_smalltalk(q) ==
    LET n == Normalize(q)
    IN  /\ n # <<>>
        /\ WordCount(n) <= SMALLTALK_MAX_WORDS
        /\ ~\E k \in DOMAIN_KEYWORDS : Match(Kw(k), n)
        /\ _strip_trailing_punctuation(n) \in SMALLTALK_PHRASES

-----------------------------------------------------------------------------
(* geometry_guard.py *)

GENERAL_RULE_PHRASES ==
    {Phrase(<<"what", "is", "meant", "by">>), PhraseSp(<<"what", "is">>),
     PhraseSp(<<"would">>), Phrase(<<"normally", "be", "permitted">>),
     Phrase(<<"does", "the", "presence", "of">>), PhraseSp(<<"restrict">>),
     Phrase(<<"according", "to", "the", "regulations">>),
     Phrase(<<"according", "to", "the", "regulation">>), Kw("generally")}

THIS_DRAWING_PHRASES ==
    {Phrase(<<"does", "this", "property">>), Phrase(<<"is", "this", "plot">>),
     Phrase(<<"in", "the", "current", "drawing">>), Phrase(<<"given", "this", "drawing">>),
     Phrase(<<"this", "drawing">>), Phrase(<<"this", "property">>),
     Phrase(<<"this", "plot">>)}

SPATIAL_KEYWORDS ==
    {"front", "fronts", "fronting", "adjacent", "adjacency", "distance", "far",
     "near", "proximity", "angle", "degrees", "coordinates", "geometry",
     "intersects", "intersection", "touch", "overlap", "align", "parallel",
     "perpendicular", "orientation", "position", "located", "relative", "elevation"}

should_trigger_geometry_guard(q) ==
    LET n == Normalize(q)
    IN  /\ n # <<>>
        /\ ~AnyMatch(GENERAL_RULE_PHRASES, n)
        /\ AnyMatch(THIS_DRAWING_PHRASES, n)
        /\ \E k \in SPATIAL_KEYWORDS : Match(Kw(k), n)

FRONTING_REQUIRED_LAYERS == {"Highway", "Plot Boundary"}

required_layers_for_question(q) ==
    LET n == Normalize(q)
        has(ks) == \E k \in ks : Match(Kw(k), n)
    IN  (IF has({"front", "fronts", "fronting"}) THEN FRONTING_REQUIRED_LAYERS ELSE {})
        \cup (IF has({"highway", "boundary", "plot", "adjacent", "distance", "intersect",
                      "touch", "overlap", "align", "position", "orientation",
                      "coordinates", "geometry"})
              THEN FRONTING_REQUIRED_LAYERS ELSE {})
        \cup (IF has({"elevation"}) THEN {"Walls", "Doors"} ELSE {})
        \cup (IF has({"wall", "walls"}) THEN {"Walls"} ELSE {})
        \cup (IF has({"door", "doors"}) THEN {"Doors"} ELSE {})

-----------------------------------------------------------------------------
(* followups.py *)

NEEDS_INPUT_PATTERNS ==
    {Phrase(<<"what", "it", "needs">>), Phrase(<<"what", "do", "you", "need">>),
     Phrase(<<"what", "is", "needed">>), Phrase(<<"what's", "missing">>),
     Phrase(<<"whats", "missing">>), Phrase(<<"what", "do", "i", "need">>),
     Phrase(<<"ne", "lazim">>), Phrase(<<"ne", "gerekiyor">>),
     Phrase(<<"ne", "eksik">>), Phrase(<<"neye", "ihtiyac">>)}

is_needs_input_followup(q) ==
    LET n == Normalize(q)
    IN  n # <<>> /\ AnyMatch(NEEDS_INPUT_PATTERNS, n)

-----------------------------------------------------------------------------
(* routing.py *)

DEFINITION_PREFIXES ==
    {Prefix(<<"what", "is">>), Prefix(<<"define">>), Prefix(<<"definition", "of">>),
     Prefix(<<"meaning", "of">>), Prefix(<<"what", "does">>),
     Prefix(<<"what", "is", "considered", "a">>),
     Prefix(<<"what", "is", "considered", "an">>),
     Prefix(<<"how", "is">>), Prefix(<<"how", "are">>)}

DEFINITION_PATTERNS == {SpPhrase(<<"mean">>), SpPhrase(<<"defined">>), SpPhrase(<<"definition">>)}

DRAWING_INTENT_KEYWORDS ==
    {"property", "plot", "boundary", "front", "fronts", "distance", "angle",
     "coordinates", "door", "window", "wall", "layer", "json", "drawing",
     "comply", "allowed", "extension"}

JSON_ONLY_PREFIXES ==
    {Prefix(<<"how", "many">>), Prefix(<<"list">>), Prefix(<<"list", "the">>),
     Prefix(<<"what", "layers">>), Prefix(<<"which", "layers">>), Prefix(<<"count">>),
     Prefix(<<"number", "of">>), Prefix(<<"what", "is", "the", "width", "of">>),
     Prefix(<<"what", "is", "the", "height", "of">>),
     Prefix(<<"what", "is", "the", "area", "of">>),
     Prefix(<<"what", "is", "the", "name", "of">>)}

JSON_ONLY_PATTERNS ==
    {SpPhraseSp(<<"layers">>), SpPhraseSp(<<"layer">>), SpPhraseSp(<<"objects">>),
     SpPhraseSp(<<"drawing">>), SpPhrase(<<"in", "the", "drawing">>),
     SpPhrase(<<"in", "this", "drawing">>), SpPhrase(<<"present">>),
     SpPhrase(<<"are", "there">>)}

\* is_definition_only_question without the loop over the drawing-intent keywords
is_definition_without_veto(q) ==
    LET n == Normalize(q)
    IN  /\ n # <<>>
        /\ (AnyMatch(DEFINITION_PREFIXES, n) \/ AnyMatch(DEFINITION_PATTERNS, n))

is_definition_only_question(q) ==
    LET n == Normalize(q)
    IN  /\ n # <<>>
        /\ ~\E k \in DRAWING_INTENT_KEYWORDS : Match(Kw(k), n)
        /\ (AnyMatch(DEFINITION_PREFIXES, n) \/ AnyMatch(DEFINITION_PATTERNS, n))

is_json_only_question(q) ==
    LET n == Normalize(q)
    IN  /\ n # <<>>
        /\ ~is_definition_only_question(q)
        /\ \/ AnyMatch(JSON_ONLY_PREFIXES, n)
           \/ AnyMatch(JSON_ONLY_PATTERNS, n)
           \/ (Match(PhraseSp(<<"how", "many">>), n)
                  /\ (Match(Kw("layer"), n) \/ Match(Kw("object"), n)))
           \/ Match(Phrase(<<"what", "layer">>), n)
           \/ Match(Phrase(<<"which", "layer">>), n)
           \/ (Match(PhraseSp(<<"what", "is", "the">>), n)
                  /\ AnyMatch({PhraseSp(<<"width", "of">>), PhraseSp(<<"height", "of">>),
                               PhraseSp(<<"area", "of">>), PhraseSp(<<"name", "of">>)}, n))

\* get_query_mode without the json_only branch
get_query_mode_no_json(q) ==
    IF q = <<>> THEN "hybrid"
    ELSE IF is_definition_only_question(q) THEN "doc_only"
    ELSE "hybrid"

get_query_mode(q) ==
    IF q = <<>> THEN "hybrid"
    ELSE IF is_definition_only_question(q) THEN "doc_only"
    ELSE IF is_json_only_question(q) THEN "json_only"
    ELSE "hybrid"

-----------------------------------------------------------------------------
(* guards/doc_only_guard.py *)

Range(f) == {f[i] : i \in DOMAIN f}
Min(S) == CHOOSE x \in S : \A y \in S : x <= y

RECURSIVE StripLeadingQuotes(_)
StripLeadingQuotes(t) ==
    IF t # <<>> /\ t[1] = Quote THEN StripLeadingQuotes(Tail(t)) ELSE t

RECURSIVE StripTrailingQuotes(_)
StripTrailingQuotes(t) ==
    IF t # <<>> /\ t[Len(t)] = Quote
    THEN StripTrailingQuotes(SubSeq(t, 1, Len(t) - 1))
    ELSE t

\* str.replace("-", " ") on one token
Dehyphen(t) ==
    IF t = "principal-elevation" THEN <<"principal", "elevation">> ELSE <<t>>

RECURSIVE DehyphenAll(_)
DehyphenAll(t) ==
    IF t = <<>> THEN <<>> ELSE Dehyphen(Head(t)) \o DehyphenAll(Tail(t))

_normalize_term_for_match(term) ==
    DehyphenAll(StripTrailingQuotes(StripLeadingQuotes(Normalize(term))))

NoTerm == [found |-> FALSE, term |-> <<>>]
Term(t) == [found |-> TRUE, term |-> _normalize_term_for_match(t)]

ExactAt(w, n, i) ==
    /\ i + Len(w) - 1 <= Len(n)
    /\ \A j \in 1..Len(w) : n[i + j - 1] = w[j]

\* the words w at i, then whitespace, then at least one more character
LeadAt(w, n, i) ==
    /\ ExactAt(w, n, i)
    /\ SpaceAfter(n, i + Len(w) - 1)

\* index of the first token of n at or after from that is in S, else Len(n) + 1
FirstIn(n, from, S) ==
    LET hits == {k \in from..Len(n) : n[k] \in S}
    IN  IF hits = {} THEN Len(n) + 1 ELSE Min(hits)

\* ([^?]+?)\s*\??\s*$ from position from: <<>> when the pattern fails
TailTerm(n, from) ==
    LET t == SubSeq(n, from, Len(n))
        u == IF t # <<>> /\ t[Len(t)] = "?" THEN SubSeq(t, 1, Len(t) - 1) ELSE t
    IN  IF "?" \in Range(u) THEN <<>> ELSE u

MeantBy == <<"what", "is", "meant", "by">>

\* what is meant by 'X'  (quoted, to the end of the question)
QuotedTermAt(n, i) ==
    LET k == FirstIn(n, i + 5, {Quote, "?"})
        rest == SubSeq(n, k, Len(n))
    IN  IF /\ LeadAt(MeantBy, n, i)
           /\ i + 4 <= Len(n)
           /\ n[i + 4] = Quote
           /\ k > i + 5
           /\ rest \in {<<>>, <<Quote>>, <<"?">>, <<Quote, "?">>}
        THEN SubSeq(n, i + 5, k - 1)
        ELSE <<>>

\* what is meant by X  (up to the first ? or ,)
PlainTermAt(n, i) ==
    IF LeadAt(MeantBy, n, i)
    THEN SubSeq(n, i + 4, FirstIn(n, i + 4, {"?", ","}) - 1)
    ELSE <<>>

Articles == {<<"a">>, <<"an">>, <<"the">>}
DefinitionOf == {<<"what", "is", "the", "definition", "of">>,
                 <<"what", "is", "the", "meaning", "of">>}

LeadTermAt(leads, n, i) ==
    IF \E w \in leads : LeadAt(w, n, i)
    THEN LET w == CHOOSE w \in leads : LeadAt(w, n, i)
         IN  TailTerm(n, i + Len(w))
    ELSE <<>>

\* re.search: the leftmost position at which the pattern yields a term
Leftmost(n, TermAt(_, _)) ==
    LET at == {i \in 1..Len(n) : TermAt(n, i) # <<>>}
    IN  IF at = {} THEN <<>> ELSE TermAt(n, Min(at))

DefinitionOfArticleAt(n, i) ==
    LeadTermAt({d \o a : d \in DefinitionOf, a \in Articles}, n, i)
DefinitionOfAt(n, i) == LeadTermAt(DefinitionOf, n, i)
WhatIsArticleAt(n, i) == LeadTermAt({<<"what", "is">> \o a : a \in Articles}, n, i)

\* define X / definition of X / meaning of X, X up to the first ? or ,
PrefixTerm(n, w) ==
    IF LeadAt(w, n, 1)
    THEN SubSeq(n, Len(w) + 1, FirstIn(n, Len(w) + 1, {"?", ","}) - 1)
    ELSE <<>>

extract_definition_term(q) ==
    LET n == Normalize(q)
        quoted == Leftmost(n, QuotedTermAt)
        plain == Leftmost(n, PlainTermAt)
        defArt == Leftmost(n, DefinitionOfArticleAt)
        def == Leftmost(n, DefinitionOfAt)
        whatIs == Leftmost(n, WhatIsArticleAt)
        p1 == PrefixTerm(n, <<"define">>)
        p2 == PrefixTerm(n, <<"definition", "of">>)
        p3 == PrefixTerm(n, <<"meaning", "of">>)
    IN  IF n = <<>> THEN NoTerm
        ELSE IF quoted # <<>> THEN Term(quoted)
        ELSE IF plain # <<>> THEN Term(plain)
        ELSE IF defArt # <<>> THEN Term(defArt)
        ELSE IF def # <<>> THEN Term(def)
        ELSE IF whatIs # <<>> THEN Term(whatIs)
        ELSE IF p1 # <<>> THEN Term(p1)
        ELSE IF p2 # <<>> THEN Term(p2)
        ELSE IF p3 # <<>> THEN Term(p3)
        ELSE NoTerm

\* needle in chunk_norm, both as token sequences
SubstringOf(needle, text) ==
    \E i \in 1..Len(text) :
        /\ i + Len(needle) - 1 <= Len(text)
        /\ \A j \in 1..Len(needle) :
              IF j = 1 \/ j = Len(needle)
              THEN Contains(text[i + j - 1], needle[j])
              ELSE text[i + j - 1] = needle[j]

term_appears_in_chunks(term, chunks) ==
    LET needle == _normalize_term_for_match(term)
    IN  /\ term # <<>>
        /\ chunks # <<>>
        /\ needle # <<>>
        /\ \E c \in 1..Len(chunks) :
              SubstringOf(needle, DehyphenAll(Normalize(chunks[c].text)))

\* the doc-only guard without the term test
should_use_retrieved_without_term(q, retrieved_chunks) ==
    retrieved_chunks # <<>>

should_use_retrieved_for_doc_only(q, retrieved_chunks) ==
    IF retrieved_chunks = <<>> THEN FALSE
    ELSE LET t == extract_definition_term(q)
         IN  IF ~t.found THEN TRUE
             ELSE term_appears_in_chunks(t.term, retrieved_chunks)

-----------------------------------------------------------------------------
(* Session objects.  An object carries a layer name and a geometry that is *)
(* null, a dict with an empty coordinate list, or a dict with coordinates. *)

Obj(layer, geometry) == [layer |-> layer, geometry |-> geometry]

\* str.lower() on layer names
LayerLower(l) ==
    CASE l = "Highway" -> "highway"
      [] l = "Plot Boundary" -> "plot boundary"
      [] l = "Walls" -> "walls"
      [] l = "Doors" -> "doors"
      [] l = "A" -> "a"
      [] OTHER -> l

\* x in y, for lower-cased layer names and the keywords tested on them
Within(x, y) ==
    \/ x = y
    \/ <<x, y>> \in {<<"a", "highway">>, <<"a", "plot boundary">>, <<"a", "walls">>,
                     <<"plot", "plot boundary">>, <<"boundary", "plot boundary">>}

\* sorted() on layer names
LayerRank(l) ==
    CASE l = "A" -> 1
      [] l = "Doors" -> 2
      [] l = "Highway" -> 3
      [] l = "Plot Boundary" -> 4
      [] l = "Walls" -> 5
      [] OTHER -> 6

RECURSIVE SortedLayers(_)
SortedLayers(S) ==
    IF S = {} THEN <<>>
    ELSE LET m == CHOOSE x \in S : \A y \in S : LayerRank(x) <= LayerRank(y)
         IN  <<m>> \o SortedLayers(S \ {m})

has_geometry(obj) == obj.geometry = "coords"

_layer_name(obj) == obj.layer

_layer_matches(layer, required) ==
    \/ \E r \in required : LayerLower(r) = LayerLower(layer)
    \/ \E r \in required : \/ Within(LayerLower(r), LayerLower(layer))
                           \/ Within(LayerLower(layer), LayerLower(r))

\* The required layers in the order in which the set is iterated: order is
\* a sequence of all layer names, and hash order is not fixed by the code.
Iterate(required, order) == SelectSeq(order, LAMBDA l : l \in required)

\* the first required layer, in iteration order, that the object matches
GroupOf(obj, reqSeq) ==
    LET hits == {k \in 1..Len(reqSeq) : _layer_matches(_layer_name(obj), {reqSeq[k]})}
    IN  IF _layer_name(obj) = "" \/ hits = {} THEN "" ELSE reqSeq[Min(hits)]

\* The keys of layer_to_objs in insertion order, all of whose objects lack
\* geometry.
missing_geometry_layers(session_objects, required, order) ==
    LET reqSeq == Iterate(required, order)
        grp(i) == GroupOf(session_objects[i], reqSeq)
        firstOf(l) == Min({i \in 1..Len(session_objects) : grp(i) = l})
        keys == {grp(i) : i \in 1..Len(session_objects)} \ {""}
        missing == {l \in keys : \A i \in 1..Len(session_objects) :
                                     grp(i) = l => ~has_geometry(session_objects[i])}
        RECURSIVE InOrder(_)
        InOrder(S) == IF S = {} THEN <<>>
                      ELSE LET m == CHOOSE x \in S : \A y \in S : firstOf(x) <= firstOf(y)
                           IN  <<m>> \o InOrder(S \ {m})
    IN  IF required = {} \/ session_objects = <<>> THEN <<>> ELSE InOrder(missing)

\* followups.py
get_missing_geometry_layers(session_objects, order) ==
    LET layers_present == {_layer_name(session_objects[i]) : i \in 1..Len(session_objects)} \ {""}
        required == layers_present \cup {"Highway", "Plot Boundary"}
    IN  IF session_objects = <<>> THEN <<>>
        ELSE SortedLayers(Range(missing_geometry_layers(session_objects, required, order)))

\* reasoning.py
_detect_limitations(objects) ==
    LET names == {LayerLower(objects[i].layer) : i \in 1..Len(objects)}
    IN  (IF \E l \in names : Within("plot", l) \/ Within("boundary", l)
         THEN <<>> ELSE <<"No plot boundary defined">>)
        \o <<"No measurement data found in objects">>
        \o (IF \E i \in 1..Len(objects) : has_geometry(objects[i])
            THEN <<>> ELSE <<"No coordinate/geometry data found">>)

compute_session_summary(session_objects) ==
    LET layers == {session_objects[i].layer : i \in 1..Len(session_objects)}
        lower == {LayerLower(l) : l \in layers}
    IN  IF session_objects = <<>>
        THEN [layer_counts |-> [l \in {} |-> 0],
              plot_boundary_present |-> FALSE,
              highways_present |-> FALSE,
              total_objects |-> 0,
              limitations |-> <<"No session objects provided">>]
        ELSE [layer_counts |-> [l \in layers |->
                  Cardinality({i \in 1..Len(session_objects) : session_objects[i].layer = l})],
              plot_boundary_present |-> \E l \in lower : Within("plot", l) \/ Within("boundary", l),
              highways_present |-> \E l \in lower : Within("highway", l) \/ Within("road", l),
              total_objects |-> Len(session_objects),
              limitations |-> _detect_limitations(session_objects)]

-----------------------------------------------------------------------------
(* rag/retrieval_postprocess.py and retrieval_lc.retrieve *)

\* A chunk.  distance is a natural number, or NoDistance for None.
NoDistance == -1
_DISTANCE_NONE == 1000
MAX_CHUNKS_PER_PAGE == 2
retrieval_top_k == 5
retrieval_max_distance == NoDistance

Chunk(id, source, page, text, distance) ==
    [id |-> id, source |-> source, page |-> page, text |-> text, distance |-> distance]

\* _chunk_distance with 0 for a distance that is None
_chunk_distance_zero(chunk) ==
    IF chunk.distance = NoDistance THEN 0 ELSE chunk.distance

_chunk_distance(chunk) ==
    IF chunk.distance = NoDistance THEN _DISTANCE_NONE ELSE chunk.distance

_source_page_key(chunk) == <<chunk.source, chunk.page>>

\* lst.append(c); lst.sort(key=_chunk_distance): the sort is stable
AppendSorted(lst, c) ==
    LET k == Cardinality({i \in 1..Len(lst) : _chunk_distance(lst[i]) <= _chunk_distance(c)})
    IN  SubSeq(lst, 1, k) \o <<c>> \o SubSeq(lst, k + 1, Len(lst))

RECURSIVE SortByDistance(_)
SortByDistance(lst) ==
    IF lst = <<>> THEN <<>>
    ELSE AppendSorted(SortByDistance(SubSeq(lst, 1, Len(lst) - 1)), lst[Len(lst)])

\* by_key as the sequence of its (key, list) items in insertion order
RECURSIVE GroupByPage(_, _, _)
GroupByPage(chunks, by_key, max_per_page) ==
    IF chunks = <<>> THEN by_key
    ELSE LET c == Head(chunks)
             key == _source_page_key(c)
             at == {i \in 1..Len(by_key) : by_key[i].key = key}
             old == IF at = {} THEN <<>> ELSE by_key[Min(at)].lst
             srt == AppendSorted(old, c)
             lst == IF Len(srt) > max_per_page THEN SubSeq(srt, 1, Len(srt) - 1) ELSE srt
             item == [key |-> key, lst |-> lst]
         IN  GroupByPage(Tail(chunks),
                         IF at = {} THEN Append(by_key, item)
                         ELSE [by_key EXCEPT ![Min(at)] = item],
                         max_per_page)

RECURSIVE Flatten(_)
Flatten(by_key) ==
    IF by_key = <<>> THEN <<>> ELSE Head(by_key).lst \o Flatten(Tail(by_key))

\* postprocess without the final deduped.sort
postprocess_unsorted(chunks, max_distance, max_per_page) ==
    LET kept == IF max_distance = NoDistance THEN chunks
                ELSE SelectSeq(chunks, LAMBDA c : _chunk_distance(c) <= max_distance)
    IN  IF chunks = <<>> THEN <<>>
        ELSE Flatten(GroupByPage(kept, <<>>, max_per_page))

postprocess(chunks, max_distance, max_per_page) ==
    LET kept == IF max_distance = NoDistance THEN chunks
                ELSE SelectSeq(chunks, LAMBDA c : _chunk_distance(c) <= max_distance)
    IN  IF chunks = <<>> THEN <<>>
        ELSE SortByDistance(Flatten(GroupByPage(kept, <<>>, max_per_page)))

\* retrieval_lc.retrieve over what similarity_search_with_score returned
retrieve(hits, top_k, max_distance) ==
    postprocess(SubSeq(hits, 1, IF Len(hits) < top_k THEN Len(hits) ELSE top_k),
                max_distance, MAX_CHUNKS_PER_PAGE)

-----------------------------------------------------------------------------
(* Calls of postprocess on its own, as tests/test_retrieval.py makes them:  *)
(* a chunk list and a threshold go in, and the list that comes out is fed   *)
(* back in.                                                                 *)

VARIABLES
    pp_chunks,        \* the chunk list of the first call
    pp_max_distance,  \* the threshold of the calls, NoDistance for None
    pp_result,        \* what the last call returned
    pp_previous,      \* what the call before it returned
    pp_passes         \* calls made so far

ppVars == <<pp_chunks, pp_max_distance, pp_result, pp_previous, pp_passes>>

\* Calls of missing_geometry_layers on its own, as tests/test_geometry_guard.py
\* makes them.
VARIABLES
    mg_objects,   \* the session_objects of the call
    mg_required,  \* the required_layers of the call
    mg_order,     \* the order in which the required set is iterated
    mg_missing,   \* what the call returned
    mg_called     \* the call has been made

mgVars == <<mg_objects, mg_required, mg_order, mg_missing, mg_called>>

\* Calls of the routing functions on their own, as tests/test_routing.py
\* makes them.
VARIABLES
    rt_question,   \* the question of the calls
    rt_doc_only,   \* what is_definition_only_question returned
    rt_json_only,  \* what is_json_only_question returned
    rt_mode,       \* what get_query_mode returned
    rt_called      \* the calls have been made

rtVars == <<rt_question, rt_doc_only, rt_json_only, rt_mode, rt_called>>

\* Two sync(delete_missing=false) calls over one folder, one registry file and
\* one index, as the startup sync of lifespan makes them in two processes
\* (separate DocumentRegistry instances), or over one shared instance.
VARIABLES
    ov_files,       \* the PDF folder
    ov_disk,        \* the registry file
    ov_index,       \* the collection: chunk id -> hash of the content it was cut from
    ov_shared,      \* both calls go through one DocumentRegistry instance
    ov_mem,         \* ov_mem[w]: the records of the instance call w goes through
    ov_pc,          \* ov_pc[w]: position of call w
    ov_todo,        \* ov_todo[w]: files call w has not reached yet
    ov_cur,         \* ov_cur[w]: the file call w is processing (sequence)
    ov_seen,        \* ov_seen[w]: the content compute_hash read for it (sequence)
    ov_chunks,      \* ov_chunks[w]: the pages and chunk ids extracted for it
    ov_registered,  \* ov_registered[w]: the sources call w has registered
    ov_regBy,       \* per source: the call that registered its record last, 0 for none
    ov_deleter,     \* per entry id: the call that deleted it and nobody re-added, 0 for none
    ov_writer,      \* the call that wrote the registry file last, 0 for none
    ov_overlap,     \* a call began while the other was in progress
    ov_bad,         \* ov_bad[w]: when call w returned, a record it had registered
                    \* listed an entry id that was not in the index
    ov_edits,       \* folder changes made so far
    ov_faults       \* collection.add failures so far

ovVars == <<ov_files, ov_disk, ov_index, ov_shared, ov_mem, ov_pc, ov_todo, ov_cur,
            ov_seen, ov_chunks, ov_registered, ov_regBy, ov_deleter, ov_writer,
            ov_overlap, ov_bad, ov_edits, ov_faults>>

unitVars == <<ppVars, mgVars, rtVars, ovVars>>

MaxOvEdits == 1
MaxOvFaults == 1

Workers == {1, 2}
Other(w) == 3 - w

\* the contents the folder of the two calls holds: for a.pdf one chunk, two
\* chunks, and other bytes that also give two chunks; b.pdf has one version
OvContents == {"c1", "c2", "c5"}
OvContentsOf(s) == IF s = "a.pdf" THEN OvContents ELSE {"c1"}
OvFolders ==
    UNION {{f \in [D -> OvContents] : \A s \in D : f[s] \in OvContentsOf(s)} :
              D \in SUBSET Sources}

ChunkIdsOf(s, c) == SeqToSet(chunk_pages(s, extract_text_from_pdf(c)))
OvIds == UNION {ChunkIdsOf(s, c) : s \in Sources, c \in OvContents}

\* the registry and the index a completed sync() over the folder f leaves on
\* a fresh installation
RegistryAfterSync(f) ==
    [s \in DOMAIN f |-> NewRecord(EmptyRegistry, s, compute_hash(f[s]),
                                  chunk_pages(s, extract_text_from_pdf(f[s])),
                                  Len(extract_text_from_pdf(f[s])))]

IndexAfterSync(f) ==
    [i \in UNION {ChunkIdsOf(s, f[s]) : s \in DOMAIN f} |->
        compute_hash(f[CHOOSE s \in DOMAIN f : i \in ChunkIdsOf(s, f[s])])]

NoChunks == [pages |-> 0, ids |-> <<>>]

InitOvRuns ==
    /\ ov_pc = [w \in Workers |-> "idle"]
    /\ ov_todo = [w \in Workers |-> {}]
    /\ ov_cur = [w \in Workers |-> <<>>]
    /\ ov_seen = [w \in Workers |-> <<>>]
    /\ ov_chunks = [w \in Workers |-> NoChunks]
    /\ ov_registered = [w \in Workers |-> {}]
    /\ ov_regBy = [s \in Sources |-> 0]
    /\ ov_deleter = [i \in OvIds |-> 0]
    /\ ov_writer = 0
    /\ ov_overlap = FALSE
    /\ ov_bad = [w \in Workers |-> FALSE]
    /\ ov_edits = 0
    /\ ov_faults = 0

InitOv ==
    /\ ov_files = [s \in {} |-> "c1"]
    /\ ov_disk = DiskMissing
    /\ ov_index = EmptyIndex
    /\ ov_shared = FALSE
    /\ ov_mem = [w \in Workers |-> EmptyRegistry]
    /\ InitOvRuns


MaxChunks == 4
MaxPasses == 2

ChunkIds == <<"c1", "c2", "c3", "c4">>
PageKeys == {<<"doc.pdf", 1>>, <<"doc.pdf", 2>>, <<"other.pdf", 1>>}
Distances == {1, 2, 3, NoDistance}
Thresholds == {NoDistance, 2}

\* chunk lists of up to max chunks: the i-th chunk has the i-th id,
\* any page key and any distance
ChunkLists(max) ==
    UNION {{[i \in 1..n |-> Chunk(ChunkIds[i], k[i][1], k[i][2], <<"x">>, d[i])] :
                k \in [1..n -> PageKeys], d \in [1..n -> Distances]} : n \in 0..max}

MaxObjects == 3

ObjectLayers == {"Highway", "Plot Boundary", "Walls", "A"}
Geometries == {"null", "empty", "coords"}
RequiredSets == SUBSET {"Highway", "Plot Boundary", "Walls"}

\* session object lists of up to max objects
ObjectLists(max) ==
    UNION {[1..n -> {Obj(l, g) : l \in ObjectLayers, g \in Geometries}] : n \in 0..max}

InitPp ==
    /\ pp_chunks = <<>>
    /\ pp_max_distance = NoDistance
    /\ pp_result = <<>>
    /\ pp_previous = <<>>
    /\ pp_passes = 0

InitMg ==
    /\ mg_objects = <<>>
    /\ mg_required = {}
    /\ mg_missing = <<>>
    /\ mg_called = FALSE

MaxWords == 4

\* the words questions are made of
Words == {"What", "is", "define", "list", "how", "many", "mean", "defined",
          "wall", "layers", "highway", "?"}

\* questions of up to max words
QuestionsOf(max) == UNION {[1..n -> Words] : n \in 0..max}

InitRt ==
    /\ rt_question = <<>>
    /\ rt_doc_only = FALSE
    /\ rt_json_only = FALSE
    /\ rt_mode = "none"
    /\ rt_called = FALSE

InitUnit == InitPp /\ InitMg /\ mg_order = <<>> /\ InitRt /\ InitOv

-----------------------------------------------------------------------------
(* Part II.  The answer pipeline: graph_lc/nodes.py, graph_lc/graph_builder.py *)
(* and rag/orchestrator.py.                                                 *)
(*                                                                          *)
(* One request is answered over both delivery paths: "single" is           *)
(* run_answer over the compiled graph, "stream" is stream_answer_ndjson     *)
(* over run_graph_until_route.  The index and the generative model are the  *)
(* environment: what they return for the request is fixed when the request  *)
(* arrives, so both paths see the same collaborators.                       *)

VARIABLES
    request,    \* the AnswerRequest: question and session_objects
    env,        \* set iteration order, similarity-search hits, model output
    state,      \* state[p]: the graph state of path p
    node,       \* node[p]: the node or statement path p executes next
    trace,      \* trace[p]: the nodes path p has executed, with the guard each fired
    idxCalls,   \* idxCalls[p]: calls of similarity_search_with_score
    llmCalls,   \* llmCalls[p]: calls of the generative model
    emitted,    \* the NDJSON records the streaming path has yielded
    sent,       \* model increments the streaming path has yielded
    response    \* what run_answer returned or raised

pipeVars == <<request, env, state, node, trace, idxCalls, llmCalls, emitted, sent, response>>

Paths == {"single", "stream"}

\* The deliveries of a request: the two paths over the graph, and the
\* handler of POST /answer in main.py.
Deliveries == Paths \cup {"http"}

\* Text is a sequence of pieces; "".join and string concatenation are \o.
SMALLTALK_RESPONSE == <<"Hi! I can help with planning regulations and your current drawing JSON.">>
THANKS_RESPONSE == <<"You're welcome!">>
DOC_ONLY_EMPTY_MESSAGE == <<"No explicit definition was found in the retrieved documents.">>

get_smalltalk_response(q) ==
    IF _strip_trailing_punctuation(Normalize(q)) \in {<<"thanks">>, <<"thank", "you">>, <<"thx">>}
    THEN THANKS_RESPONSE
    ELSE SMALLTALK_RESPONSE

build_needs_input_message(missing_layers) ==
    IF missing_layers = <<>>
    THEN <<"All required layers have valid geometry.">>
    ELSE <<"Layers needing geometry:">> \o missing_layers \o <<"Geometry requirement: ...">>

MissingGeometryMessage(missing) ==
    <<"Cannot determine because the current drawing does not provide geometric information for:">>
        \o SortedLayers(Range(missing))

NoGuard == [type |-> "none", missing_layers |-> <<>>]
Guard(type, missing_layers) == [type |-> type, missing_layers |-> missing_layers]
Fired(s) == s.guard_result.type # "none"

\* The state dict a path starts from.
InitialState(q, objs, services) ==
    [question |-> q,
     session_objects |-> objs,
     guard_result |-> NoGuard,
     session_summary |-> <<>>,
     query_mode |-> "none",
     doc_only |-> FALSE,
     retrieved_docs |-> <<>>,
     answer_text |-> <<>>,
     _reasoning_service |-> services,
     _settings |-> services]

_inject(s) == [s EXCEPT !._reasoning_service = TRUE, !._settings = TRUE]

\* What a graph wrapper hands to its node: _inject fills a copy, dict(s),
\* that is dropped; the node is called on s.
GraphNodeInput(s) ==
    LET copy == _inject(s)
    IN  s

validate_node(s) == s

smalltalk_node(s) ==
    [s EXCEPT !.guard_result = IF is_smalltalk(s.question)
                               THEN Guard("smalltalk", <<>>)
                               ELSE NoGuard]

geometry_guard_node(s, order) ==
    IF ~should_trigger_geometry_guard(s.question)
    THEN [s EXCEPT !.guard_result = NoGuard]
    ELSE LET required == required_layers_for_question(s.question)
             missing == missing_geometry_layers(s.session_objects, required, order)
         IN  IF missing # <<>>
             THEN [s EXCEPT !.guard_result =
                       Guard("missing_geometry", SortedLayers(Range(missing)))]
             ELSE [s EXCEPT !.guard_result = NoGuard]

followup_node(s, order) ==
    IF ~is_needs_input_followup(s.question) THEN s
    ELSE LET missing_layers == get_missing_geometry_layers(s.session_objects, order)
         IN  IF missing_layers # <<>>
             THEN [s EXCEPT !.guard_result = Guard("needs_input", missing_layers)]
             ELSE s

summarize_node(s) ==
    [s EXCEPT !.session_summary = IF ~s._reasoning_service THEN <<>>
                                  ELSE <<compute_session_summary(s.session_objects)>>]

route_node(s) ==
    LET query_mode == get_query_mode(s.question)
    IN  [s EXCEPT !.query_mode = query_mode, !.doc_only = (query_mode = "doc_only")]

\* retrieve_node queries the index unless it returns early
RetrieveQueries(s) == s._settings /\ s.query_mode # "json_only"

retrieve_node(s, hits) ==
    [s EXCEPT !.retrieved_docs =
        IF RetrieveQueries(s)
        THEN retrieve(hits, retrieval_top_k, retrieval_max_distance)
        ELSE <<>>]

finalize_node(s) ==
    LET session_summary ==
            IF s.session_summary = <<>> /\ s._reasoning_service
            THEN <<compute_session_summary(s.session_objects)>>
            ELSE s.session_summary
        t == s.guard_result.type
    IN  IF ~Fired(s) THEN s
        ELSE [s EXCEPT !.session_summary = session_summary,
                       !.answer_text =
                           CASE t = "smalltalk" -> get_smalltalk_response(s.question)
                             [] t = "missing_geometry" ->
                                    MissingGeometryMessage(s.guard_result.missing_layers)
                             [] t = "needs_input" ->
                                    build_needs_input_message(s.guard_result.missing_layers)
                             [] OTHER -> s.answer_text]

-----------------------------------------------------------------------------
(* Initial state: a fresh installation over some folder of PDFs. *)

Folders == UNION {[D -> Contents] : D \in SUBSET Sources}

InitSync ==
    /\ files \in Folders
    /\ records = EmptyRegistry
    /\ disk = DiskMissing
    /\ index = EmptyIndex
    /\ pc = "idle"
    /\ runKind = "none"
    /\ delMissing = FALSE
    /\ todo = {}
    /\ dtodo = {}
    /\ cur = <<>>
    /\ curStatus = "none"
    /\ curOld = <<>>
    /\ saveRet = "idle"
    /\ result = EmptyResult
    /\ status = NoStatus
    /\ outcome = NoStatus
    /\ startRecs = EmptyRegistry
    /\ lastRun = NoRun
    /\ prevRun = NoRun
    /\ edits = 0
    /\ runs = 0
    /\ faults = 0
    /\ crashed = FALSE
    /\ crashes = 0
    /\ boot = _load(DiskMissing)
    /\ diskPrev = DiskMissing

-----------------------------------------------------------------------------
(* The environment edits the folder between runs. *)

runState == <<pc, runKind, delMissing, todo, dtodo, cur, curStatus, curOld,
              saveRet, result, status, outcome, startRecs>>

WriteFile(s, c) ==
    /\ pc = "idle" /\ ~crashed
    /\ edits < MaxEdits
    /\ IF s \in DOMAIN files THEN files[s] # c ELSE TRUE
    /\ files' = [x \in (DOMAIN files) \cup {s} |-> IF x = s THEN c ELSE files[x]]
    /\ edits' = edits + 1
    /\ UNCHANGED <<records, disk, index, runState, lastRun, prevRun, runs, faults, crashed, crashes, boot, diskPrev>>
    /\ UNCHANGED <<pipeVars, unitVars>>

RemoveFile(s) ==
    /\ pc = "idle" /\ ~crashed
    /\ edits < MaxEdits
    /\ s \in DOMAIN files
    /\ files' = [x \in (DOMAIN files) \ {s} |-> files[x]]
    /\ edits' = edits + 1
    /\ UNCHANGED <<records, disk, index, runState, lastRun, prevRun, runs, faults, crashed, crashes, boot, diskPrev>>
    /\ UNCHANGED <<pipeVars, unitVars>>

-----------------------------------------------------------------------------
(* DocumentSyncService.sync and force_reingest, statement by statement. *)

BeginRun(kind, dm, docs) ==
    /\ runKind' = kind
    /\ delMissing' = dm
    /\ todo' = docs
    /\ dtodo' = {}
    /\ cur' = <<>>
    /\ curStatus' = "none"
    /\ curOld' = <<>>
    /\ result' = EmptyResult
    /\ status' = NoStatus
    /\ outcome' = NoStatus
    /\ startRecs' = records
    /\ runs' = runs + 1

\* sync(delete_missing): result = SyncResult(); pdf_files = get_pdf_files()
StartSync(dm) ==
    /\ pc = "idle" /\ ~crashed
    /\ runs < MaxRuns
    /\ BeginRun("sync", dm, DOMAIN files)
    /\ pc' = "loop"
    /\ saveRet' = "idle"
    /\ UNCHANGED <<files, records, disk, index, lastRun, prevRun, edits, faults, crashed, crashes, boot, diskPrev>>
    /\ UNCHANGED <<pipeVars, unitVars>>

\* force_reingest(source_id): registry.unregister(source_id), then the
\* files whose name is source_id.  unregister saves only when it removed a
\* record; the chunk ids it returns are dropped.
StartForceOne(s) ==
    /\ pc = "idle" /\ ~crashed
    /\ runs < MaxRuns
    /\ BeginRun("force_one", FALSE, {s} \cap DOMAIN files)
    /\ IF s \in DOMAIN records
       THEN /\ records' = RegistryDel(records, s)
            /\ disk' = DiskTruncated /\ diskPrev' = disk
            /\ pc' = "save"
            /\ saveRet' = "loop"
       ELSE /\ pc' = "loop"
            /\ saveRet' = "idle"
            /\ UNCHANGED <<records, disk, diskPrev>>
    /\ UNCHANGED <<files, index, lastRun, prevRun, edits, faults, crashed, crashes, boot>>
    /\ UNCHANGED <<pipeVars, unitVars>>

\* force_reingest(None): registry.clear(), vector_store.clear(), all files.
StartForceAll ==
    /\ pc = "idle" /\ ~crashed
    /\ runs < MaxRuns
    /\ BeginRun("force_all", FALSE, DOMAIN files)
    /\ records' = EmptyRegistry
    /\ disk' = DiskTruncated /\ diskPrev' = disk
    /\ pc' = "save"
    /\ saveRet' = "vclear"
    /\ UNCHANGED <<files, index, lastRun, prevRun, edits, faults, crashed, crashes, boot>>
    /\ UNCHANGED <<pipeVars, unitVars>>

\* A variant of ClearIndex that leaves the collection as it is.
ClearIndex_skipped ==
    /\ pc = "vclear" /\ ~crashed
    /\ index' = index
    /\ pc' = "loop"
    /\ UNCHANGED <<files, records, disk, runKind, delMissing, todo, dtodo, cur,
                   curStatus, curOld, saveRet, result, status, outcome, startRecs,
                   lastRun, prevRun, edits, runs, faults, crashed, crashes, boot, diskPrev>>
    /\ UNCHANGED <<pipeVars, unitVars>>

\* vector_store.clear(): delete_collection + create_collection
ClearIndex ==
    /\ pc = "vclear" /\ ~crashed
    /\ index' = EmptyIndex
    /\ pc' = "loop"
    /\ UNCHANGED <<files, records, disk, runKind, delMissing, todo, dtodo, cur,
                   curStatus, curOld, saveRet, result, status, outcome, startRecs,
                   lastRun, prevRun, edits, runs, faults, crashed, crashes, boot, diskPrev>>
    /\ UNCHANGED <<pipeVars, unitVars>>

\* _save, after open(path, "w"): json.dump writes the whole registry.
SaveWrite ==
    /\ pc = "save" /\ ~crashed
    /\ disk' = DiskComplete(records)
    /\ pc' = saveRet
    /\ UNCHANGED diskPrev
    /\ UNCHANGED <<files, records, index, runKind, delMissing, todo, dtodo, cur,
                   curStatus, curOld, saveRet, result, status, outcome, startRecs,
                   lastRun, prevRun, edits, runs, faults, crashed, crashes, boot>>
    /\ UNCHANGED <<pipeVars, unitVars>>

\* _process_document up to the status test: compute_hash, get_status, and
\* the UNCHANGED branch.  The folder is listed in no particular order.
BeginDocument ==
    /\ pc = "loop" /\ ~crashed
    /\ \E s \in todo :
        LET h  == compute_hash(files[s])
            st == get_status(records, s, h)
        IN  /\ todo' = todo \ {s}
            /\ cur' = <<s>>
            /\ curStatus' = st
            /\ curOld' = IF s \in DOMAIN records THEN <<records[s]>> ELSE <<>>
            /\ status' = [status EXCEPT ![s] = st]
            /\ IF st = "unchanged"
               THEN /\ result' = [result EXCEPT !.unchanged_documents = @ + 1]
                    /\ outcome' = [outcome EXCEPT ![s] = "unchanged"]
                    /\ pc' = "loop"
               ELSE /\ pc' = IF st = "updated" THEN "delete_old" ELSE "extract"
                    /\ UNCHANGED <<result, outcome>>
    /\ UNCHANGED <<files, records, disk, index, runKind, delMissing, dtodo, saveRet,
                   startRecs, lastRun, prevRun, edits, runs, faults, crashed, crashes, boot, diskPrev>>
    /\ UNCHANGED <<pipeVars, unitVars>>

\* delete_by_ids: collection.delete either succeeds, or raises and the
\* exception is logged and swallowed (returns 0).
delete_by_ids_ok(ix, ids) == IndexDelete(ix, ids)
delete_by_ids_failed(ix, ids) == ix

\* UPDATED: old_chunk_ids = get_chunk_ids(source_id); delete them first.
DeleteOld(ok) ==
    /\ pc = "delete_old" /\ ~crashed
    /\ LET old == get_chunk_ids(records, cur[1])
       IN  IF old = <<>>
           THEN /\ ok
                /\ UNCHANGED <<index, result, faults>>
           ELSE IF ok
           THEN /\ index' = delete_by_ids_ok(index, SeqToSet(old))
                /\ result' = [result EXCEPT !.total_chunks_deleted = @ + Len(old)]
                /\ UNCHANGED faults
           ELSE /\ faults < MaxFaults
                /\ index' = delete_by_ids_failed(index, SeqToSet(old))
                /\ faults' = faults + 1
                /\ UNCHANGED result
    /\ pc' = "extract"
    /\ UNCHANGED <<files, records, disk, runKind, delMissing, todo, dtodo, cur,
                   curStatus, curOld, saveRet, status, outcome, startRecs,
                   lastRun, prevRun, edits, runs, crashed, crashes, boot, diskPrev>>
    /\ UNCHANGED <<pipeVars, unitVars>>

\* extract_text_from_pdf, chunk_pages, the "no chunks" return, and
\* vector_store.add_documents, which raises when collection.add raises.
ExtractAndAdd(ok) ==
    /\ pc = "extract" /\ ~crashed
    /\ LET s      == cur[1]
           pages  == extract_text_from_pdf(files[s])
           chunks == chunk_pages(s, pages)
       IN  IF chunks = <<>>
           THEN /\ ok
                /\ outcome' = [outcome EXCEPT ![s] = "no_chunks"]
                /\ pc' = "loop"
                /\ UNCHANGED <<index, result, faults>>
           ELSE IF ok
           THEN /\ index' = IndexAdd(index, SeqToSet(chunks), compute_hash(files[s]))
                /\ pc' = "register"
                /\ UNCHANGED <<result, outcome, faults>>
           ELSE /\ faults < MaxFaults
                /\ faults' = faults + 1
                /\ result' = [result EXCEPT !.errors = Append(@, <<"processing", s>>)]
                /\ outcome' = [outcome EXCEPT ![s] = "error"]
                /\ pc' = "loop"
                /\ UNCHANGED index
    /\ UNCHANGED <<files, records, disk, runKind, delMissing, todo, dtodo, cur,
                   curStatus, curOld, saveRet, status, startRecs,
                   lastRun, prevRun, edits, runs, crashed, crashes, boot, diskPrev>>
    /\ UNCHANGED <<pipeVars, unitVars>>

\* registry.register: the new record, then _save opens the file.
register(r, source_id, content_hash, chunk_ids, page_count) ==
    RegistryPut(r, source_id, NewRecord(r, source_id, content_hash, chunk_ids, page_count))

Register ==
    /\ pc = "register" /\ ~crashed
    /\ LET s      == cur[1]
           pages  == extract_text_from_pdf(files[s])
           chunks == chunk_pages(s, pages)
       IN  records' = register(records, s, compute_hash(files[s]), chunks, Len(pages))
    /\ disk' = DiskTruncated /\ diskPrev' = disk
    /\ pc' = "save"
    /\ saveRet' = "count"
    /\ UNCHANGED <<files, index, runKind, delMissing, todo, dtodo, cur, curStatus,
                   curOld, result, status, outcome, startRecs,
                   lastRun, prevRun, edits, runs, faults, crashed, crashes, boot>>
    /\ UNCHANGED <<pipeVars, unitVars>>

\* total_chunks_added and the new / updated counter.
Count ==
    /\ pc = "count" /\ ~crashed
    /\ LET s == cur[1]
           n == Len(records[s].chunk_ids)
       IN  /\ result' = IF curStatus = "new"
                        THEN [result EXCEPT !.total_chunks_added = @ + n,
                                            !.new_documents = @ + 1]
                        ELSE [result EXCEPT !.total_chunks_added = @ + n,
                                            !.updated_documents = @ + 1]
           /\ outcome' = [outcome EXCEPT ![s] = IF curStatus = "new" THEN "new" ELSE "updated"]
    /\ pc' = "loop"
    /\ UNCHANGED <<files, records, disk, index, runKind, delMissing, todo, dtodo, cur,
                   curStatus, curOld, saveRet, status, startRecs,
                   lastRun, prevRun, edits, runs, faults, crashed, crashes, boot, diskPrev>>
    /\ UNCHANGED <<pipeVars, unitVars>>

\* A variant of EndLoop in which an exception of one document ends the
\* processing loop.
EndLoop_after_error ==
    /\ pc = "loop" /\ ~crashed
    /\ IF result.errors # <<>> THEN TRUE ELSE todo = {}
    /\ dtodo' = IF runKind = "sync" /\ delMissing
                THEN get_deleted_sources(records, DOMAIN files)
                ELSE {}
    /\ pc' = "dloop"
    /\ cur' = <<>>
    /\ curStatus' = "none"
    /\ curOld' = <<>>
    /\ UNCHANGED <<files, records, disk, index, runKind, delMissing, todo, saveRet,
                   result, status, outcome, startRecs,
                   lastRun, prevRun, edits, runs, faults, crashed, crashes, boot, diskPrev>>
    /\ UNCHANGED <<pipeVars, unitVars>>

\* A variant of EndLoop that takes the deleted sources whatever delete_missing is.
EndLoop_ignoring_delete_missing ==
    /\ pc = "loop" /\ ~crashed
    /\ todo = {}
    /\ dtodo' = IF runKind = "sync"
                THEN get_deleted_sources(records, DOMAIN files)
                ELSE {}
    /\ pc' = "dloop"
    /\ cur' = <<>>
    /\ curStatus' = "none"
    /\ curOld' = <<>>
    /\ UNCHANGED <<files, records, disk, index, runKind, delMissing, todo, saveRet,
                   result, status, outcome, startRecs,
                   lastRun, prevRun, edits, runs, faults, crashed, crashes, boot, diskPrev>>
    /\ UNCHANGED <<pipeVars, unitVars>>

\* The processing loop is over: if delete_missing, the deleted sources.
EndLoop ==
    /\ pc = "loop" /\ ~crashed
    /\ todo = {}
    /\ dtodo' = IF runKind = "sync" /\ delMissing
                THEN get_deleted_sources(records, DOMAIN files)
                ELSE {}
    /\ pc' = "dloop"
    /\ cur' = <<>>
    /\ curStatus' = "none"
    /\ curOld' = <<>>
    /\ UNCHANGED <<files, records, disk, index, runKind, delMissing, todo, saveRet,
                   result, status, outcome, startRecs,
                   lastRun, prevRun, edits, runs, faults, crashed, crashes, boot, diskPrev>>
    /\ UNCHANGED <<pipeVars, unitVars>>

\* _delete_document: chunk_ids = registry.unregister(source_id)
Unregister ==
    /\ pc = "dloop" /\ ~crashed
    /\ \E s \in dtodo :
        /\ dtodo' = dtodo \ {s}
        /\ cur' = <<s>>
        /\ curOld' = <<records[s]>>
        /\ records' = RegistryDel(records, s)
    /\ disk' = DiskTruncated /\ diskPrev' = disk
    /\ pc' = "save"
    /\ saveRet' = "dindex"
    /\ UNCHANGED <<files, index, runKind, delMissing, todo, curStatus, result,
                   status, outcome, startRecs, lastRun, prevRun, edits, runs,
                   faults, crashed, crashes, boot>>
    /\ UNCHANGED <<pipeVars, unitVars>>

\* _delete_document: delete_by_ids(chunk_ids), deleted_documents += 1
DeleteMissing(ok) ==
    /\ pc = "dindex" /\ ~crashed
    /\ LET old == curOld[1].chunk_ids
       IN  IF old = <<>>
           THEN /\ ok
                /\ result' = [result EXCEPT !.deleted_documents = @ + 1]
                /\ UNCHANGED <<index, faults>>
           ELSE IF ok
           THEN /\ index' = delete_by_ids_ok(index, SeqToSet(old))
                /\ result' = [result EXCEPT !.total_chunks_deleted = @ + Len(old),
                                            !.deleted_documents = @ + 1]
                /\ UNCHANGED faults
           ELSE /\ faults < MaxFaults
                /\ index' = delete_by_ids_failed(index, SeqToSet(old))
                /\ faults' = faults + 1
                /\ result' = [result EXCEPT !.deleted_documents = @ + 1]
    /\ outcome' = [outcome EXCEPT ![cur[1]] = "deleted"]
    /\ pc' = "dloop"
    /\ UNCHANGED <<files, records, disk, runKind, delMissing, todo, dtodo, cur,
                   curStatus, curOld, saveRet, status, startRecs,
                   lastRun, prevRun, edits, runs, crashed, crashes, boot, diskPrev>>
    /\ UNCHANGED <<pipeVars, unitVars>>

\* return result
Finish ==
    /\ pc = "dloop" /\ ~crashed
    /\ dtodo = {}
    /\ pc' = "idle"
    /\ prevRun' = lastRun
    /\ lastRun' = [kind |-> runKind, delete_missing |-> delMissing, files |-> files,
                   status |-> status, outcome |-> outcome,
                   before |-> startRecs, after |-> records, indexAfter |-> index,
                   nerrors |-> Len(result.errors), nfaults |-> faults]
    /\ cur' = <<>>
    /\ curOld' = <<>>
    /\ UNCHANGED <<files, records, disk, index, runKind, delMissing, todo, dtodo,
                   curStatus, saveRet, result, status, outcome, startRecs,
                   edits, runs, faults, crashed, crashes, boot, diskPrev>>
    /\ UNCHANGED <<pipeVars, unitVars>>

-----------------------------------------------------------------------------
(* Process death and restart.  A crash takes the memory of the process and *)
(* leaves the registry file and the index as they are; on restart          *)
(* DocumentRegistry.__init__ loads the file.                               *)

Crash ==
    /\ ~crashed
    /\ pc # "idle"
    /\ crashes < MaxCrashes
    /\ crashed' = TRUE
    /\ crashes' = crashes + 1
    /\ UNCHANGED <<files, records, disk, index, runState, lastRun, prevRun,
                   edits, runs, faults, boot, diskPrev>>
    /\ UNCHANGED <<pipeVars, unitVars>>

Restart ==
    /\ crashed
    /\ boot' = _load(disk)
    /\ crashed' = boot'.raised
    /\ records' = boot'.records
    /\ pc' = "idle"
    /\ runKind' = "none"
    /\ delMissing' = FALSE
    /\ todo' = {}
    /\ dtodo' = {}
    /\ cur' = <<>>
    /\ curStatus' = "none"
    /\ curOld' = <<>>
    /\ saveRet' = "idle"
    /\ result' = EmptyResult
    /\ status' = NoStatus
    /\ outcome' = NoStatus
    /\ startRecs' = EmptyRegistry
    /\ lastRun' = NoRun
    /\ prevRun' = NoRun
    /\ UNCHANGED <<files, disk, index, edits, runs, faults, crashes, diskPrev>>
    /\ UNCHANGED <<pipeVars, unitVars>>

-----------------------------------------------------------------------------
(* The requests and the collaborators' behaviours that are explored. *)

Questions ==
    {<<"hi">>,
     <<"Thanks", "!">>,
     <<"hello", "highway">>,
     <<"Does", "this", "property", "front", "a", "highway", "?">>,
     <<"What", "is", "a", "highway", "?">>,
     <<"What", "is", "meant", "by", "'", "side", "elevation", "'", "?">>,
     <<"What", "is", "meant", "by", "principal-elevation", "?">>,
     <<"What", "is", "meant", "by", "fronting", "?">>,
     <<"what", "do", "you", "need", "?">>,
     <<"What", "do", "you", "need", "for", "the", "distance", "in", "this", "drawing", "?">>,
     <<"How", "many", "layers", "are", "present", "?">>,
     <<"Does", "the", "extension", "comply", "with", "regulations", "?">>,
     <<"define", "curtilage">>,
     <<"How", "is", "height", "measured", "?">>,
     <<"What", "is", "the", "definition", "of", "a", "highway", "?">>}

SessionObjectLists ==
    {<<>>,
     <<Obj("Highway", "null")>>,
     <<Obj("Highway", "coords"), Obj("Plot Boundary", "null")>>,
     <<Obj("Highway", "coords"), Obj("Plot Boundary", "coords")>>,
     <<Obj("Highway", "null"), Obj("Plot Boundary", "empty")>>,
     <<Obj("A", "null"), Obj("Walls", "coords")>>}

LayerOrders ==
    {<<"A", "Doors", "Highway", "Plot Boundary", "Walls">>,
     <<"Walls", "Plot Boundary", "Highway", "Doors", "A">>}

\* What similarity_search_with_score finds in the collection for the question.
IndexHits ==
    {<<>>,
     <<Chunk("reg_001_0001", "reg.pdf", 1, <<"a", "Highway", "is", "a", "public", "road">>, 2)>>,
     <<Chunk("reg_002_0003", "reg.pdf", 2, <<"the", "Principal-elevation", "faces", "the", "road">>, 3),
       Chunk("reg_004_0007", "reg.pdf", 4, <<"curtilage", "means", "the", "land">>, 1)>>,
     <<Chunk("reg_003_0004", "reg.pdf", 3, <<"general", "rules">>, 3),
       Chunk("reg_003_0005", "reg.pdf", 3, <<"permitted", "development">>, 1),
       Chunk("reg_003_0006", "reg.pdf", 3, <<"height", "limits">>, NoDistance)>>}

\* What the generative model produces: text increments, then the end of the
\* output or a failure.
ModelOutputs ==
    {[incs |-> <<"t1">>, fail |-> FALSE],
     [incs |-> <<"t1", "t2">>, fail |-> FALSE],
     [incs |-> <<"t1">>, fail |-> TRUE]}

NoRequest == [question |-> <<>>, session_objects |-> <<>>]
NoEnv == [order |-> <<>>, hits |-> <<>>, llm |-> [incs |-> <<>>, fail |-> FALSE]]
NoResponse ==
    [kind |-> "none", error |-> "none", answer |-> <<>>, query_mode |-> "none",
     session_summary |-> <<>>]

InitPipe ==
    /\ request = NoRequest
    /\ env = NoEnv
    /\ state = [p \in Deliveries |-> InitialState(<<>>, <<>>, FALSE)]
    /\ node = [p \in Deliveries |-> "idle"]
    /\ trace = [p \in Deliveries |-> <<>>]
    /\ idxCalls = [p \in Deliveries |-> 0]
    /\ llmCalls = [p \in Deliveries |-> 0]
    /\ emitted = <<>>
    /\ sent = 0
    /\ response = NoResponse

-----------------------------------------------------------------------------
(* rag/chains.py: the prompt templates and what each call passes to them.   *)
(* ChatPromptTemplate raises when a variable of the template is missing.    *)

HYBRID_HUMAN_TEMPLATE ==
    {"question", "json_objects_pretty", "layer_counts", "plot_boundary_present",
     "highways_present", "limitations", "spatial_analysis", "retrieved_chunks_formatted"}
DOC_ONLY_HUMAN_TEMPLATE == {"question", "retrieved_chunks_formatted"}

invoke_doc_only == {"question", "retrieved_chunks_formatted"}
invoke_hybrid ==
    {"question", "json_objects_pretty", "layer_counts", "plot_boundary_present",
     "highways_present", "limitations", "spatial_analysis", "retrieved_chunks_formatted"}
astream_doc_only == {"question", "retrieved_chunks_formatted"}
astream_hybrid ==
    {"question", "json_objects_pretty", "layer_counts", "plot_boundary_present",
     "highways_present", "limitations", "retrieved_chunks_formatted"}

PromptAccepts(template, inputs) == template \subseteq inputs

\* StrOutputParser over the whole output: the increments joined
Joined(incs) == incs

-----------------------------------------------------------------------------
(* A request arrives.  It is answered over the single-shot path and then,  *)
(* with the same collaborators, over the streaming path; the state of a     *)
(* request is not kept, so one request per behaviour covers them all.       *)

Receive(q, objs, order, hits, llm) ==
    /\ \A p \in Paths : node[p] = "idle"
    /\ request' = [question |-> q, session_objects |-> objs]
    /\ env' = [order |-> order, hits |-> hits, llm |-> llm]
    /\ state' = [p \in Deliveries |-> InitialState(q, objs, p # "single")]
    /\ node' = [p \in Deliveries |-> "validate"]
    /\ trace' = [p \in Deliveries |-> <<>>]
    /\ idxCalls' = [p \in Deliveries |-> 0]
    /\ llmCalls' = [p \in Deliveries |-> 0]
    /\ emitted' = <<>>
    /\ sent' = 0
    /\ response' = NoResponse
    /\ UNCHANGED <<syncVars, unitVars>>

-----------------------------------------------------------------------------
(* The edges of build_answer_graph and the sequencing of                    *)
(* run_graph_until_route.                                                   *)

after_smalltalk(s) == IF Fired(s) THEN "finalize" ELSE "geometry_guard"

after_followup(s) ==
    IF Fired(s) /\ s.guard_result.type = "missing_geometry" THEN "finalize"
    ELSE IF Fired(s) /\ s.guard_result.type = "needs_input" THEN "finalize"
    ELSE "summarize"

GraphEdge(n, s) ==
    CASE n = "validate" -> "smalltalk"
      [] n = "smalltalk" -> after_smalltalk(s)
      [] n = "geometry_guard" -> "followup"
      [] n = "followup" -> after_followup(s)
      [] n = "summarize" -> "route"
      [] n = "route" -> "retrieve"
      [] n = "retrieve" -> "llm"
      [] n = "llm" -> "finalize"
      [] n = "finalize" -> "respond"

run_graph_until_route(n, s) ==
    CASE n = "validate" -> "smalltalk"
      [] n = "smalltalk" -> IF Fired(s) THEN "return" ELSE "geometry_guard"
      [] n = "geometry_guard" -> IF Fired(s) THEN "return" ELSE "followup"
      [] n = "followup" -> IF Fired(s) THEN "return" ELSE "summarize"
      [] n = "summarize" -> "route"
      [] n = "route" -> "retrieve"
      [] n = "retrieve" -> "return"

NextNode(p, n, s) == IF p = "single" THEN GraphEdge(n, s) ELSE run_graph_until_route(n, s)

\* the state a node of path p is called on
NodeInput(p) == IF p = "single" THEN GraphNodeInput(state[p]) ELSE state[p]

\* the node's update merged into the state of path p
Merged(p, out) ==
    [out EXCEPT !._reasoning_service = state[p]._reasoning_service,
                !._settings = state[p]._settings]

\* the streaming delivery starts when the single-shot one has ended
Turn(p) == p = "single" \/ node["single"] = "END"

Step(p, n, out, fired, next) ==
    /\ Turn(p)
    /\ state' = [state EXCEPT ![p] = Merged(p, out)]
    /\ trace' = [trace EXCEPT ![p] = Append(@, [node |-> n, fired |-> fired])]
    /\ node' = [node EXCEPT ![p] = next]
    /\ UNCHANGED <<request, env, syncVars, unitVars>>

-----------------------------------------------------------------------------
(* The nodes the two paths share. *)

Validate(p) ==
    /\ node[p] = "validate"
    /\ LET out == validate_node(NodeInput(p))
       IN  Step(p, "validate", out, "none", NextNode(p, "validate", out))
    /\ UNCHANGED <<idxCalls, llmCalls, emitted, sent, response>>

Smalltalk(p) ==
    /\ node[p] = "smalltalk"
    /\ LET out == smalltalk_node(NodeInput(p))
       IN  Step(p, "smalltalk", out, out.guard_result.type, NextNode(p, "smalltalk", out))
    /\ UNCHANGED <<idxCalls, llmCalls, emitted, sent, response>>

GeometryGuard(p) ==
    /\ node[p] = "geometry_guard"
    /\ LET out == geometry_guard_node(NodeInput(p), env.order)
       IN  Step(p, "geometry_guard", out, out.guard_result.type,
                NextNode(p, "geometry_guard", out))
    /\ UNCHANGED <<idxCalls, llmCalls, emitted, sent, response>>

Followup(p) ==
    /\ node[p] = "followup"
    /\ LET out == followup_node(NodeInput(p), env.order)
       IN  Step(p, "followup", out,
                IF out.guard_result.type = "needs_input" THEN "needs_input" ELSE "none",
                NextNode(p, "followup", out))
    /\ UNCHANGED <<idxCalls, llmCalls, emitted, sent, response>>

Summarize(p) ==
    /\ node[p] = "summarize"
    /\ LET out == summarize_node(NodeInput(p))
       IN  Step(p, "summarize", out, "none", NextNode(p, "summarize", out))
    /\ UNCHANGED <<idxCalls, llmCalls, emitted, sent, response>>

Route(p) ==
    /\ node[p] = "route"
    /\ LET out == route_node(NodeInput(p))
       IN  Step(p, "route", out, "none", NextNode(p, "route", out))
    /\ UNCHANGED <<idxCalls, llmCalls, emitted, sent, response>>

Retrieve(p) ==
    /\ node[p] = "retrieve"
    /\ LET inp == NodeInput(p)
           out == retrieve_node(inp, env.hits)
       IN  /\ Step(p, "retrieve", out, "none", NextNode(p, "retrieve", out))
           /\ idxCalls' = [idxCalls EXCEPT ![p] = IF RetrieveQueries(inp) THEN @ + 1 ELSE @]
    /\ UNCHANGED <<llmCalls, emitted, sent, response>>

-----------------------------------------------------------------------------
(* The single-shot path: llm_node, finalize_node, and run_answer's return. *)

\* llm_node calls the model unless it substitutes the fixed message
LlmNodeCalls(s) == ~s.doc_only \/ s.retrieved_docs # <<>>

Llm ==
    /\ node["single"] = "llm"
    /\ LET s == NodeInput("single")
           accepted == IF s.doc_only
                       THEN PromptAccepts(DOC_ONLY_HUMAN_TEMPLATE, invoke_doc_only)
                       ELSE PromptAccepts(HYBRID_HUMAN_TEMPLATE, invoke_hybrid)
       IN  IF ~LlmNodeCalls(s)
           THEN /\ Step("single", "llm", [s EXCEPT !.answer_text = DOC_ONLY_EMPTY_MESSAGE],
                        "none", GraphEdge("llm", s))
                /\ UNCHANGED llmCalls
           ELSE IF ~accepted
           THEN /\ Step("single", "llm", s, "none", "raise")
                /\ UNCHANGED llmCalls
           ELSE /\ llmCalls' = [llmCalls EXCEPT !["single"] = @ + 1]
                /\ IF env.llm.fail
                   THEN Step("single", "llm", s, "none", "raise")
                   ELSE Step("single", "llm", [s EXCEPT !.answer_text = Joined(env.llm.incs)],
                             "none", GraphEdge("llm", s))
    /\ UNCHANGED <<idxCalls, emitted, sent, response>>

Finalize ==
    /\ node["single"] = "finalize"
    /\ LET out == finalize_node(NodeInput("single"))
       IN  Step("single", "finalize", out, "none", GraphEdge("finalize", out))
    /\ UNCHANGED <<idxCalls, llmCalls, emitted, sent, response>>

AnswerResponse(s) ==
    [kind |-> "ok", error |-> "none", answer |-> s.answer_text,
     query_mode |-> s.query_mode, session_summary |-> s.session_summary]

\* models.py: the fields of AnswerResponse that have no default, and the
\* keyword arguments run_answer passes.  The model class raises a validation
\* error when a required field is missing; a keyword it does not declare is
\* ignored.
AnswerResponse_required == {"answer", "evidence"}
run_answer == {"answer", "query_mode", "session_summary"}
ModelAccepts(required, given) == required \subseteq given

\* run_answer: return AnswerResponse(...) over the final state
Respond ==
    /\ node["single"] = "respond"
    /\ response' = IF ModelAccepts(AnswerResponse_required, run_answer)
                   THEN AnswerResponse(state["single"])
                   ELSE [NoResponse EXCEPT !.kind = "error", !.error = "ValidationError"]
    /\ node' = [node EXCEPT !["single"] = "END"]
    /\ UNCHANGED <<request, env, state, trace, idxCalls, llmCalls, emitted, sent, syncVars, unitVars>>

\* the exception of the model call leaves graph.invoke and run_answer
Raise ==
    /\ node["single"] = "raise"
    /\ response' = [NoResponse EXCEPT !.kind = "error", !.error = "Exception"]
    /\ node' = [node EXCEPT !["single"] = "END"]
    /\ UNCHANGED <<request, env, state, trace, idxCalls, llmCalls, emitted, sent, syncVars, unitVars>>

-----------------------------------------------------------------------------
(* The streaming path: stream_answer_ndjson after run_graph_until_route. *)

ChunkRecord(c) == [t |-> "chunk", c |-> c, query_mode |-> "none", session_summary |-> <<>>]
ErrorRecord == [t |-> "error", c |-> <<"message">>, query_mode |-> "none", session_summary |-> <<>>]

_state_to_done_payload(s) ==
    [t |-> "done", c |-> s.answer_text, query_mode |-> s.query_mode,
     session_summary |-> s.session_summary]

\* if state.get("guard_result"): finalize_node, and the answer as one chunk
StreamGuard ==
    /\ node["stream"] = "return"
    /\ Fired(state["stream"])
    /\ LET out == finalize_node(state["stream"])
       IN  /\ Step("stream", "finalize", out, "none", "yield_done")
           /\ emitted' = Append(emitted, ChunkRecord(out.answer_text))
    /\ UNCHANGED <<idxCalls, llmCalls, sent, response>>

\* doc_only with nothing retrieved, or the asked term not in the chunks
StreamDocOnlyEmpty ==
    /\ node["stream"] = "return"
    /\ ~Fired(state["stream"])
    /\ LET s == state["stream"]
       IN  /\ s.doc_only
           /\ s.retrieved_docs = <<>>
                 \/ ~should_use_retrieved_for_doc_only(request.question, s.retrieved_docs)
           /\ Step("stream", "llm", [s EXCEPT !.answer_text = DOC_ONLY_EMPTY_MESSAGE],
                   "none", "finalize")
    /\ emitted' = Append(emitted, ChunkRecord(DOC_ONLY_EMPTY_MESSAGE))
    /\ UNCHANGED <<idxCalls, llmCalls, sent, response>>

\* the first iteration of async for: the chain is started
StreamOpen ==
    /\ node["stream"] = "return"
    /\ ~Fired(state["stream"])
    /\ LET s == state["stream"]
           accepted == IF s.doc_only
                       THEN PromptAccepts(DOC_ONLY_HUMAN_TEMPLATE, astream_doc_only)
                       ELSE PromptAccepts(HYBRID_HUMAN_TEMPLATE, astream_hybrid)
       IN  /\ s.doc_only =>
                 /\ s.retrieved_docs # <<>>
                 /\ should_use_retrieved_for_doc_only(request.question, s.retrieved_docs)
           /\ IF accepted
              THEN /\ Step("stream", "llm", s, "none", "generating")
                   /\ llmCalls' = [llmCalls EXCEPT !["stream"] = @ + 1]
              ELSE /\ Step("stream", "llm", s, "none", "raise")
                   /\ UNCHANGED llmCalls
    /\ sent' = 0
    /\ UNCHANGED <<idxCalls, emitted, response>>

\* one increment of the model is appended and yielded
StreamChunk ==
    /\ node["stream"] = "generating"
    /\ sent < Len(env.llm.incs)
    /\ emitted' = Append(emitted, ChunkRecord(<<env.llm.incs[sent + 1]>>))
    /\ sent' = sent + 1
    /\ UNCHANGED <<request, env, state, node, trace, idxCalls, llmCalls, response, syncVars, unitVars>>

\* A variant of StreamFail that yields an error record where the model
\* fails and lets the exception go on to the handler of the generator.
StreamFail_yields_error ==
    /\ node["stream"] = "generating"
    /\ sent = Len(env.llm.incs)
    /\ env.llm.fail
    /\ emitted' = Append(emitted, ErrorRecord)
    /\ node' = [node EXCEPT !["stream"] = "raise"]
    /\ UNCHANGED <<request, env, state, trace, idxCalls, llmCalls, sent, response, syncVars, unitVars>>

\* the model fails after its increments
\* A variant of StreamFail in which the failure of the model ends the
\* output like its regular end: the exception is swallowed.
StreamFail_swallowed ==
    /\ node["stream"] = "generating"
    /\ sent = Len(env.llm.incs)
    /\ env.llm.fail
    /\ node' = [node EXCEPT !["stream"] = "finalize"]
    /\ UNCHANGED <<request, env, state, trace, idxCalls, llmCalls, emitted, sent, response, syncVars, unitVars>>

StreamFail ==
    /\ node["stream"] = "generating"
    /\ sent = Len(env.llm.incs)
    /\ env.llm.fail
    /\ node' = [node EXCEPT !["stream"] = "raise"]
    /\ UNCHANGED <<request, env, state, trace, idxCalls, llmCalls, emitted, sent, response, syncVars, unitVars>>

\* A variant of StreamClose that keeps only the last increment as the answer
StreamClose_last_increment ==
    /\ node["stream"] = "generating"
    /\ sent = Len(env.llm.incs)
    /\ ~env.llm.fail
    /\ state' = [state EXCEPT !["stream"].answer_text = SubSeq(env.llm.incs, sent, sent)]
    /\ node' = [node EXCEPT !["stream"] = "finalize"]
    /\ UNCHANGED <<request, env, trace, idxCalls, llmCalls, emitted, sent, response, syncVars, unitVars>>

\* the output ends: state["answer_text"] = "".join(full_answer_chunks)
StreamClose ==
    /\ node["stream"] = "generating"
    /\ sent = Len(env.llm.incs)
    /\ ~env.llm.fail
    /\ state' = [state EXCEPT !["stream"].answer_text = SubSeq(env.llm.incs, 1, sent)]
    /\ node' = [node EXCEPT !["stream"] = "finalize"]
    /\ UNCHANGED <<request, env, trace, idxCalls, llmCalls, emitted, sent, response, syncVars, unitVars>>

\* state.update(finalize_node(state)) before the done record
StreamFinalize ==
    /\ node["stream"] = "finalize"
    /\ LET out == finalize_node(state["stream"])
       IN  Step("stream", "finalize", out, "none", "yield_done")
    /\ UNCHANGED <<idxCalls, llmCalls, emitted, sent, response>>

StreamDone ==
    /\ node["stream"] = "yield_done"
    /\ emitted' = Append(emitted, _state_to_done_payload(state["stream"]))
    /\ node' = [node EXCEPT !["stream"] = "END"]
    /\ UNCHANGED <<request, env, state, trace, idxCalls, llmCalls, sent, response, syncVars, unitVars>>

\* except Exception: the error record
StreamError ==
    /\ node["stream"] = "raise"
    /\ emitted' = Append(emitted, ErrorRecord)
    /\ node' = [node EXCEPT !["stream"] = "END"]
    /\ UNCHANGED <<request, env, state, trace, idxCalls, llmCalls, sent, response, syncVars, unitVars>>

-----------------------------------------------------------------------------
(* main.py: the handler of POST /answer.  It does not go through the graph: *)
(* it tests the guards itself, always searches the index, and calls         *)
(* LLMService.generate_answer.                                              *)

\* geometry_guard.is_spatial_question
is_spatial_question(q) ==
    LET n == Normalize(q)
    IN  n # <<>> /\ \E k \in SPATIAL_KEYWORDS : Match(Kw(k), n)

\* VectorStoreService.search over what collection.query finds
search(hits, top_k) == SubSeq(hits, 1, IF Len(hits) < top_k THEN Len(hits) ELSE top_k)

\* retrieval.py carries the same statements as rag/retrieval_postprocess.py
postprocess_retrieved_chunks(chunks, max_distance, max_per_page) ==
    postprocess(chunks, max_distance, max_per_page)

\* The handler as a function of the request and of what the collaborators
\* return: the final state, the steps taken, the calls made, and whether the
\* handler returned or raised HTTPException(500).
answer_question(s, order, hits, llm) ==
    LET summary == <<compute_session_summary(s.session_objects)>>
        Entry(n, f) == [node |-> n, fired |-> f]
        required == required_layers_for_question(s.question)
        missing == IF is_spatial_question(s.question)
                   THEN missing_geometry_layers(s.session_objects, required, order)
                   ELSE <<>>
        missing_layers == IF is_needs_input_followup(s.question)
                          THEN get_missing_geometry_layers(s.session_objects, order)
                          ELSE <<>>
        retrieved_chunks == postprocess_retrieved_chunks(search(hits, retrieval_top_k),
                                                         retrieval_max_distance,
                                                         MAX_CHUNKS_PER_PAGE)
        doc_only == is_definition_only_question(s.question)
        Returned(st, tr, idx, calls, ok) ==
            [state |-> st, trace |-> tr, idx |-> idx, llm |-> calls, ok |-> ok]
    IN  IF is_smalltalk(s.question)
        THEN Returned([s EXCEPT !.guard_result = Guard("smalltalk", <<>>),
                                !.answer_text = SMALLTALK_RESPONSE,
                                !.session_summary = summary],
                      <<Entry("smalltalk", "smalltalk")>>, 0, 0, TRUE)
        ELSE IF missing # <<>>
        THEN Returned([s EXCEPT !.guard_result =
                                     Guard("missing_geometry", SortedLayers(Range(missing))),
                                !.answer_text = MissingGeometryMessage(missing),
                                !.session_summary = summary],
                      <<Entry("smalltalk", "none"),
                        Entry("geometry_guard", "missing_geometry")>>, 0, 0, TRUE)
        ELSE IF missing_layers # <<>>
        THEN Returned([s EXCEPT !.guard_result = Guard("needs_input", missing_layers),
                                !.answer_text = build_needs_input_message(missing_layers),
                                !.session_summary = summary],
                      <<Entry("smalltalk", "none"), Entry("geometry_guard", "none"),
                        Entry("followup", "needs_input")>>, 0, 0, TRUE)
        ELSE Returned([s EXCEPT !.session_summary = summary,
                                !.retrieved_docs = retrieved_chunks,
                                !.doc_only = doc_only,
                                !.answer_text = IF llm.fail THEN <<>> ELSE Joined(llm.incs)],
                      <<Entry("smalltalk", "none"), Entry("geometry_guard", "none"),
                        Entry("followup", "none"), Entry("summarize", "none"),
                        Entry("retrieve", "none"), Entry("llm", "none")>>,
                      1, 1, ~llm.fail)

\* POST /answer, after the two deliveries over the graph have ended
AnswerQuestion ==
    /\ node["http"] = "validate"
    /\ node["stream"] = "END"
    /\ LET r == answer_question(state["http"], env.order, env.hits, env.llm)
       IN  /\ state' = [state EXCEPT !["http"] = r.state]
           /\ trace' = [trace EXCEPT !["http"] = r.trace]
           /\ idxCalls' = [idxCalls EXCEPT !["http"] = r.idx]
           /\ llmCalls' = [llmCalls EXCEPT !["http"] = r.llm]
           /\ node' = [node EXCEPT !["http"] = IF r.ok THEN "END" ELSE "HTTP 500"]
    /\ UNCHANGED <<request, env, emitted, sent, response, syncVars, unitVars>>

\* one call of postprocess: on the chunk list first, then on what it returned
Postprocess ==
    /\ pp_passes < MaxPasses
    /\ pp_previous' = pp_result
    /\ pp_result' = postprocess(IF pp_passes = 0 THEN pp_chunks ELSE pp_result,
                            pp_max_distance, MAX_CHUNKS_PER_PAGE)
    /\ pp_passes' = pp_passes + 1
    /\ UNCHANGED <<pp_chunks, pp_max_distance, mgVars, rtVars, ovVars, syncVars, pipeVars>>

\* one call of missing_geometry_layers
MissingGeometryLayers ==
    /\ ~mg_called
    /\ mg_missing' = missing_geometry_layers(mg_objects, mg_required, mg_order)
    /\ mg_called' = TRUE
    /\ UNCHANGED <<mg_objects, mg_required, mg_order, ppVars, rtVars, ovVars, syncVars, pipeVars>>

\* the three routing functions called on one question
GetQueryMode ==
    /\ ~rt_called
    /\ rt_doc_only' = is_definition_only_question(rt_question)
    /\ rt_json_only' = is_json_only_question(rt_question)
    /\ rt_mode' = get_query_mode(rt_question)
    /\ rt_called' = TRUE
    /\ UNCHANGED <<rt_question, ppVars, mgVars, ovVars, syncVars, pipeVars>>

-----------------------------------------------------------------------------
(* Two overlapping sync(delete_missing=false) calls.  Each statement of     *)
(* _process_document that reads or writes the folder, the registry or the   *)
(* index is a step of its own; register with its _save is one step.         *)

OvRest == <<ppVars, mgVars, rtVars, syncVars, pipeVars>>

\* the folder changes: a file is written or replaced
OvWriteFile(s, c) ==
    /\ ov_edits < MaxOvEdits
    /\ \E w \in Workers : ov_pc[w] # "done"
    /\ IF s \in DOMAIN ov_files THEN ov_files[s] # c ELSE TRUE
    /\ ov_files' = [x \in (DOMAIN ov_files) \cup {s} |-> IF x = s THEN c ELSE ov_files[x]]
    /\ ov_edits' = ov_edits + 1
    /\ UNCHANGED <<ov_disk, ov_index, ov_shared, ov_mem, ov_pc, ov_todo, ov_cur, ov_seen,
                   ov_chunks, ov_registered, ov_regBy, ov_deleter, ov_writer,
                   ov_overlap, ov_bad, ov_faults>>
    /\ UNCHANGED OvRest

\* lifespan: DocumentRegistry(registry_path) loads the file, unless the
\* instance is the shared one; sync: pdf_files = get_pdf_files()
OvStart(w) ==
    /\ ov_pc[w] = "idle"
    /\ ov_mem' = IF ov_shared THEN ov_mem
                 ELSE [ov_mem EXCEPT ![w] = _load(ov_disk).records]
    /\ ov_todo' = [ov_todo EXCEPT ![w] = DOMAIN ov_files]
    /\ ov_pc' = [ov_pc EXCEPT ![w] = "loop"]
    /\ ov_overlap' = (ov_overlap \/ ov_pc[Other(w)] \notin {"idle", "done"})
    /\ UNCHANGED <<ov_files, ov_disk, ov_index, ov_shared, ov_cur, ov_seen,
                   ov_chunks, ov_registered, ov_regBy, ov_deleter, ov_writer,
                   ov_bad, ov_edits, ov_faults>>
    /\ UNCHANGED OvRest

\* compute_hash, get_status, and the UNCHANGED branch
OvBeginDocument(w) ==
    /\ ov_pc[w] = "loop"
    /\ \E s \in ov_todo[w] :
        LET st == get_status(ov_mem[w], s, compute_hash(ov_files[s]))
        IN  /\ ov_todo' = [ov_todo EXCEPT ![w] = @ \ {s}]
            /\ ov_cur' = [ov_cur EXCEPT ![w] = <<s>>]
            /\ ov_seen' = [ov_seen EXCEPT ![w] = <<ov_files[s]>>]
            /\ ov_pc' = [ov_pc EXCEPT ![w] = CASE st = "unchanged" -> "loop"
                                               [] st = "updated" -> "delete_old"
                                               [] OTHER -> "extract"]
    /\ UNCHANGED <<ov_files, ov_disk, ov_index, ov_shared, ov_mem,
                   ov_chunks, ov_registered, ov_regBy, ov_deleter, ov_writer,
                   ov_overlap, ov_bad, ov_edits, ov_faults>>
    /\ UNCHANGED OvRest

\* UPDATED: delete_by_ids(get_chunk_ids(source_id))
OvDeleteOld(w) ==
    /\ ov_pc[w] = "delete_old"
    /\ LET old == SeqToSet(get_chunk_ids(ov_mem[w], ov_cur[w][1]))
       IN  /\ ov_index' = delete_by_ids_ok(ov_index, old)
           /\ ov_deleter' = [i \in OvIds |-> IF i \in old \cap DOMAIN ov_index
                                            THEN w ELSE ov_deleter[i]]
    /\ ov_pc' = [ov_pc EXCEPT ![w] = "extract"]
    /\ UNCHANGED <<ov_files, ov_disk, ov_shared, ov_mem, ov_todo, ov_cur, ov_seen,
                   ov_chunks, ov_registered, ov_regBy, ov_writer,
                   ov_overlap, ov_bad, ov_edits, ov_faults>>
    /\ UNCHANGED OvRest

\* A variant of OvExtractAndAdd whose add_documents stores nothing
OvExtractAndAdd_without_add(w, ok) ==
    /\ ov_pc[w] = "extract"
    /\ ok
    /\ LET s      == ov_cur[w][1]
           pages  == extract_text_from_pdf(ov_files[s])
           chunks == chunk_pages(s, pages)
       IN  /\ ov_chunks' = [ov_chunks EXCEPT ![w] = [pages |-> Len(pages), ids |-> chunks]]
           /\ ov_pc' = [ov_pc EXCEPT ![w] = IF chunks = <<>> THEN "loop" ELSE "register"]
    /\ UNCHANGED <<ov_files, ov_disk, ov_index, ov_shared, ov_mem, ov_todo, ov_cur, ov_seen,
                   ov_registered, ov_regBy, ov_deleter, ov_writer,
                   ov_overlap, ov_bad, ov_edits, ov_faults>>
    /\ UNCHANGED OvRest

\* extract_text_from_pdf and chunk_pages on the file as it is now, the "no
\* chunks" return, and add_documents, which raises when collection.add raises
OvExtractAndAdd(w, ok) ==
    /\ ov_pc[w] = "extract"
    /\ LET s      == ov_cur[w][1]
           pages  == extract_text_from_pdf(ov_files[s])
           chunks == chunk_pages(s, pages)
       IN  IF chunks = <<>>
           THEN /\ ok
                /\ ov_pc' = [ov_pc EXCEPT ![w] = "loop"]
                /\ UNCHANGED <<ov_index, ov_chunks, ov_deleter, ov_faults>>
           ELSE IF ok
           THEN /\ ov_index' = IndexAdd(ov_index, SeqToSet(chunks), compute_hash(ov_files[s]))
                /\ ov_deleter' = [i \in OvIds |-> IF i \in SeqToSet(chunks)
                                                 THEN 0 ELSE ov_deleter[i]]
                /\ ov_chunks' = [ov_chunks EXCEPT ![w] = [pages |-> Len(pages), ids |-> chunks]]
                /\ ov_pc' = [ov_pc EXCEPT ![w] = "register"]
                /\ UNCHANGED ov_faults
           ELSE /\ ov_faults < MaxOvFaults
                /\ ov_faults' = ov_faults + 1
                /\ ov_pc' = [ov_pc EXCEPT ![w] = "loop"]
                /\ UNCHANGED <<ov_index, ov_chunks, ov_deleter>>
    /\ UNCHANGED <<ov_files, ov_disk, ov_shared, ov_mem, ov_todo, ov_cur, ov_seen,
                   ov_registered, ov_regBy, ov_writer,
                   ov_overlap, ov_bad, ov_edits>>
    /\ UNCHANGED OvRest

\* the records of the instance of call w after registering its document
OvRegistered(w) ==
    register(ov_mem[w], ov_cur[w][1], compute_hash(ov_seen[w][1]),
             ov_chunks[w].ids, ov_chunks[w].pages)

\* A variant of OvRegister whose _save puts the new record into the records
\* it finds in the file
OvRegister_merging_save(w) ==
    /\ ov_pc[w] = "register"
    /\ ov_mem' = IF ov_shared THEN [x \in Workers |-> OvRegistered(w)]
                 ELSE [ov_mem EXCEPT ![w] = OvRegistered(w)]
    /\ ov_disk' = DiskComplete(RegistryPut(_load(ov_disk).records, ov_cur[w][1],
                                           OvRegistered(w)[ov_cur[w][1]]))
    /\ ov_writer' = w
    /\ ov_registered' = [ov_registered EXCEPT ![w] = @ \cup {ov_cur[w][1]}]
    /\ ov_regBy' = [ov_regBy EXCEPT ![ov_cur[w][1]] = w]
    /\ ov_pc' = [ov_pc EXCEPT ![w] = "loop"]
    /\ UNCHANGED <<ov_files, ov_index, ov_shared, ov_todo, ov_cur, ov_seen, ov_chunks,
                   ov_deleter, ov_overlap, ov_bad, ov_edits, ov_faults>>
    /\ UNCHANGED OvRest

\* registry.register: the new record in self.records, then _save writes the
\* whole of self.records into the file
OvRegister(w) ==
    /\ ov_pc[w] = "register"
    /\ ov_mem' = IF ov_shared THEN [x \in Workers |-> OvRegistered(w)]
                 ELSE [ov_mem EXCEPT ![w] = OvRegistered(w)]
    /\ ov_disk' = DiskComplete(OvRegistered(w))
    /\ ov_writer' = w
    /\ ov_registered' = [ov_registered EXCEPT ![w] = @ \cup {ov_cur[w][1]}]
    /\ ov_regBy' = [ov_regBy EXCEPT ![ov_cur[w][1]] = w]
    /\ ov_pc' = [ov_pc EXCEPT ![w] = "loop"]
    /\ UNCHANGED <<ov_files, ov_index, ov_shared, ov_todo, ov_cur, ov_seen, ov_chunks,
                   ov_deleter, ov_overlap, ov_bad, ov_edits, ov_faults>>
    /\ UNCHANGED OvRest

\* the entry ids that the record of s in the instance of call w lists and the
\* index does not hold
OvDangling(w, s) ==
    IF s \in DOMAIN ov_mem[w]
    THEN SeqToSet(ov_mem[w][s].chunk_ids) \ DOMAIN ov_index
    ELSE {}

\* return result
OvReturn(w) ==
    /\ ov_pc[w] = "loop"
    /\ ov_todo[w] = {}
    /\ ov_pc' = [ov_pc EXCEPT ![w] = "done"]
    /\ ov_bad' = [ov_bad EXCEPT ![w] = \E s \in ov_registered[w] : OvDangling(w, s) # {}]
    /\ UNCHANGED <<ov_files, ov_disk, ov_index, ov_shared, ov_mem, ov_todo, ov_cur, ov_seen,
                   ov_chunks, ov_registered, ov_regBy, ov_deleter, ov_writer,
                   ov_overlap, ov_edits, ov_faults>>
    /\ UNCHANGED OvRest

vars == <<syncVars, pipeVars, unitVars>>

Init == InitSync /\ InitPipe /\ InitUnit

Next ==
    \/ \E s \in Sources, c \in Contents : WriteFile(s, c)
    \/ \E s \in Sources : RemoveFile(s)
    \/ \E dm \in BOOLEAN : StartSync(dm)
    \/ \E s \in Sources : StartForceOne(s)
    \/ StartForceAll
    \/ ClearIndex
    \/ SaveWrite
    \/ BeginDocument
    \/ \E ok \in BOOLEAN : DeleteOld(ok)
    \/ \E ok \in BOOLEAN : ExtractAndAdd(ok)
    \/ Register
    \/ Count
    \/ EndLoop
    \/ Unregister
    \/ \E ok \in BOOLEAN : DeleteMissing(ok)
    \/ Finish

Spec == Init /\ [][Next]_vars

NextCrash ==
    \/ Next
    \/ Crash
    \/ Restart

SpecCrash == Init /\ [][NextCrash]_vars

\* Requests answered over an idle installation with an empty folder.
InitAnswer == Init /\ DOMAIN files = {}

NextAnswer ==
    \/ \E q \in Questions, objs \in SessionObjectLists, order \in LayerOrders,
          hits \in IndexHits, llm \in ModelOutputs : Receive(q, objs, order, hits, llm)
    \/ \E p \in Paths : Validate(p)
    \/ \E p \in Paths : Smalltalk(p)
    \/ \E p \in Paths : GeometryGuard(p)
    \/ \E p \in Paths : Followup(p)
    \/ \E p \in Paths : Summarize(p)
    \/ \E p \in Paths : Route(p)
    \/ \E p \in Paths : Retrieve(p)
    \/ Llm
    \/ Finalize
    \/ Respond
    \/ Raise
    \/ StreamGuard
    \/ StreamDocOnlyEmpty
    \/ StreamOpen
    \/ StreamChunk
    \/ StreamFail
    \/ StreamClose
    \/ StreamFinalize
    \/ StreamDone
    \/ StreamError
    \/ AnswerQuestion

SpecAnswer == InitAnswer /\ [][NextAnswer]_vars

\* postprocess called on its own over every chunk list of up to MaxChunks chunks
InitPostprocess ==
    /\ InitSync /\ DOMAIN files = {}
    /\ InitPipe
    /\ InitOv
    /\ InitMg /\ mg_order = <<>>
    /\ InitRt
    /\ pp_chunks \in ChunkLists(MaxChunks)
    /\ pp_max_distance \in Thresholds
    /\ pp_result = <<>>
    /\ pp_previous = <<>>
    /\ pp_passes = 0

NextPostprocess == Postprocess

SpecPostprocess == InitPostprocess /\ [][NextPostprocess]_vars

\* missing_geometry_layers called on its own over every object list of
\* up to MaxObjects objects, every required set of RequiredSets and both iteration orders
InitGeometryGuard ==
    /\ InitSync /\ DOMAIN files = {}
    /\ InitPipe
    /\ InitOv
    /\ InitPp
    /\ InitRt
    /\ mg_objects \in ObjectLists(MaxObjects)
    /\ mg_required \in RequiredSets
    /\ mg_order \in LayerOrders
    /\ mg_missing = <<>>
    /\ mg_called = FALSE

NextGeometryGuard == MissingGeometryLayers

SpecGeometryGuard == InitGeometryGuard /\ [][NextGeometryGuard]_vars

\* the routing functions called on their own over every question of up to
\* MaxWords words
InitRouting ==
    /\ InitSync /\ DOMAIN files = {}
    /\ InitPipe
    /\ InitOv
    /\ InitPp
    /\ InitMg /\ mg_order = <<>>
    /\ rt_question \in QuestionsOf(MaxWords)
    /\ rt_doc_only = FALSE
    /\ rt_json_only = FALSE
    /\ rt_mode = "none"
    /\ rt_called = FALSE

NextRouting == GetQueryMode

SpecRouting == InitRouting /\ [][NextRouting]_vars

\* Two sync calls over an installation that a completed sync over an earlier
\* folder has left.
InitOverlap ==
    /\ InitSync /\ DOMAIN files = {}
    /\ InitPipe
    /\ InitPp
    /\ InitMg /\ mg_order = <<>>
    /\ InitRt
    /\ ov_files \in OvFolders
    /\ \E earlier \in OvFolders :
          /\ ov_disk = IF DOMAIN earlier = {} THEN DiskMissing
                       ELSE DiskComplete(RegistryAfterSync(earlier))
          /\ ov_index = IndexAfterSync(earlier)
    /\ ov_shared \in BOOLEAN
    /\ ov_mem = [w \in Workers |-> _load(ov_disk).records]
    /\ InitOvRuns

NextOverlap ==
    \/ \E s \in Sources : \E c \in OvContentsOf(s) : OvWriteFile(s, c)
    \/ \E w \in Workers : OvStart(w)
    \/ \E w \in Workers : OvBeginDocument(w)
    \/ \E w \in Workers : OvDeleteOld(w)
    \/ \E w \in Workers, ok \in BOOLEAN : OvExtractAndAdd(w, ok)
    \/ \E w \in Workers : OvRegister(w)
    \/ \E w \in Workers : OvReturn(w)

SpecOverlap == InitOverlap /\ [][NextOverlap]_vars

-----------------------------------------------------------------------------
(* Claims about the document sync *)

RecordIds(r, s) == IF s \in DOMAIN r THEN SeqToSet(r[s].chunk_ids) ELSE {}
RecordVersion(r, s) == IF s \in DOMAIN r THEN r[s].version ELSE 0

TwoSyncRuns == pc = "idle" /\ lastRun.kind = "sync" /\ prevRun.kind = "sync"

\* The documents both runs processed and whose bytes did not change between them.
SameBytes == {s \in (DOMAIN lastRun.files) \cap (DOMAIN prevRun.files) :
                 lastRun.files[s] = prevRun.files[s]}

\* C1 as stated: every document that two consecutive sync runs processed
\* with unchanged bytes is reported UNCHANGED by the second run, and its
\* registry version is the same before and after that run.
C1_AsStated ==
    TwoSyncRuns =>
        \A s \in SameBytes :
            /\ lastRun.status[s] = "unchanged"
            /\ RecordVersion(lastRun.after, s) = RecordVersion(lastRun.before, s)

\* C1 amended: every document that the first of two consecutive sync runs
\* left registered under its current bytes (it ingested it as new or
\* updated, or found it unchanged) is reported UNCHANGED by the second run
\* when its bytes are the same, and the second run leaves its record,
\* version included, as it was.
C1_UnchangedSecondRun ==
    TwoSyncRuns =>
        \A s \in SameBytes :
            prevRun.outcome[s] \in {"new", "updated", "unchanged"} =>
                /\ lastRun.status[s] = "unchanged"
                /\ lastRun.outcome[s] = "unchanged"
                /\ s \in DOMAIN lastRun.after
                /\ s \in DOMAIN lastRun.before
                /\ lastRun.after[s] = lastRun.before[s]
                /\ lastRun.after[s].version >= 1

C1_Witness ==
    /\ TwoSyncRuns
    /\ \E s \in SameBytes :
        /\ prevRun.outcome[s] = "new"
        /\ lastRun.status[s] = "unchanged"
        /\ lastRun.after[s].version = 1

\* The registered documents whose bytes differ from the registered hash
\* when the last run began.
ChangedDocs == {s \in (DOMAIN lastRun.files) \cap (DOMAIN lastRun.before) :
                   compute_hash(lastRun.files[s]) # lastRun.before[s].content_hash}

AfterSync == pc = "idle" /\ lastRun.kind = "sync"

\* C2 as stated: for every registered document whose bytes changed, status
\* is UPDATED, the version after the run is the old version + 1, and the
\* record's entry ids after the run share no id with the previous record.
C2_AsStated ==
    AfterSync =>
        \A s \in ChangedDocs :
            /\ lastRun.status[s] = "updated"
            /\ RecordVersion(lastRun.after, s) = lastRun.before[s].version + 1
            /\ RecordIds(lastRun.after, s) \cap RecordIds(lastRun.before, s) = {}

\* C2 amended: for every registered document whose bytes changed, status is
\* UPDATED; when the re-ingestion yields at least one entry and the add to
\* the index does not fail, the record's version after the run is the old
\* version + 1, its hash is the hash of the new bytes and its entry ids are
\* the ids chunk_pages derives from the new content (file stem, page
\* number, running chunk counter), which may coincide with ids of the
\* previous record; otherwise the record is left as it was.
C2_UpdatedVersion ==
    AfterSync =>
        \A s \in ChangedDocs :
            /\ lastRun.status[s] = "updated"
            /\ s \in DOMAIN lastRun.after
            /\ IF lastRun.outcome[s] = "updated"
               THEN /\ lastRun.after[s].version = lastRun.before[s].version + 1
                    /\ lastRun.after[s].content_hash = compute_hash(lastRun.files[s])
                    /\ lastRun.after[s].chunk_ids =
                           chunk_pages(s, extract_text_from_pdf(lastRun.files[s]))
                    /\ lastRun.after[s].chunk_ids # <<>>
               ELSE /\ lastRun.outcome[s] \in {"no_chunks", "error"}
                    /\ lastRun.after[s] = lastRun.before[s]

C2_Witness ==
    /\ AfterSync
    /\ \E s \in ChangedDocs :
        /\ lastRun.outcome[s] = "updated"
        /\ lastRun.after[s].version = 2
        /\ RecordIds(lastRun.after, s) \cap RecordIds(lastRun.before, s) # {}

\* The ids the registry lists for the documents of the folder, and for all.
RegisteredIds(r, docs) == UNION {RecordIds(r, s) : s \in docs}

\* C3: after a sync(delete_missing=true) run that reported no errors, the
\* index holds exactly the entries that the registry lists for the
\* documents of the folder (nothing orphaned, nothing missing, no record of
\* a document that is gone), and a second such run over the same folder
\* changes neither the index nor the registry.
C3_IndexMatchesRegistry ==
    /\ (pc = "idle" /\ lastRun.kind = "sync" /\ lastRun.delete_missing
           /\ lastRun.nerrors = 0)
        => /\ DOMAIN index = RegisteredIds(records, DOMAIN lastRun.files)
           /\ DOMAIN records \subseteq DOMAIN lastRun.files
    /\ (TwoSyncRuns /\ lastRun.delete_missing /\ prevRun.delete_missing
           /\ lastRun.nerrors = 0 /\ prevRun.nerrors = 0
           /\ lastRun.files = prevRun.files)
        => /\ lastRun.after = lastRun.before
           /\ lastRun.indexAfter = prevRun.indexAfter

\* Entries of the document in progress: those the previous record listed,
\* still carrying the previous content, and those cut from the new content.
OldEntries ==
    IF curOld = <<>> THEN {}
    ELSE {i \in SeqToSet(curOld[1].chunk_ids) \cap DOMAIN index :
              index[i] = curOld[1].content_hash}

NewEntries ==
    IF cur = <<>> \/ cur[1] \notin DOMAIN files THEN {}
    ELSE {i \in SeqToSet(chunk_pages(cur[1], extract_text_from_pdf(files[cur[1]])))
                    \cap DOMAIN index :
              index[i] = compute_hash(files[cur[1]])}

\* C4: while an UPDATED document is processed, all its previously
\* registered entries are gone from the index before its new entries are
\* added, and old and new entries of it are never in the index together.
C4_DeleteBeforeAdd ==
    (curStatus = "updated" /\ pc \in {"delete_old", "extract", "register", "save", "count"})
        => /\ (pc \in {"register", "save", "count"} => OldEntries = {})
           /\ ~(OldEntries # {} /\ NewEntries # {})

\* C5: when the process dies during a mutating registry call, the registry
\* file holds either the complete registry of before the call or the
\* complete registry of after it.
C5_SaveIsAtomic ==
    crashed => (disk = diskPrev \/ disk = DiskComplete(records))


-----------------------------------------------------------------------------
(* Claims about the answer pipeline *)

Done(p) == node[p] = "END"
NodesOf(p) == [i \in DOMAIN trace[p] |-> trace[p][i].node]
Executed(p) == Range(NodesOf(p))
FiredAt(p) == {i \in DOMAIN trace[p] : trace[p][i].fired # "none"}
GuardNodes == {"smalltalk", "geometry_guard", "followup"}
MainNodes == {"summarize", "route", "retrieve", "llm"}
GuardEntries(p) == {i \in DOMAIN trace[p] : trace[p][i].node \in GuardNodes}
GuardRank(n) ==
    CASE n = "smalltalk" -> 1
      [] n = "geometry_guard" -> 2
      [] n = "followup" -> 3
      [] OTHER -> 0

\* C6, as stated: on every path the guards are evaluated in the order
\* small-talk, geometry, follow-up; once a guard has fired no later guard is
\* evaluated and the GuardResult stays the one of the first guard that
\* fired; a request on which no guard fired reaches route.
C6_AsStated ==
    \A p \in Paths :
        /\ \A i, j \in GuardEntries(p) :
              i < j => GuardRank(trace[p][i].node) < GuardRank(trace[p][j].node)
        /\ FiredAt(p) # {} =>
              /\ \A j \in GuardEntries(p) : j <= Min(FiredAt(p))
              /\ state[p].guard_result.type = trace[p][Min(FiredAt(p))].fired
        /\ (Done(p) /\ FiredAt(p) = {}) => "route" \in Executed(p)

\* C7, as stated: the node executed right after a guard fires is finalize;
\* summarize, route, retrieve and generate are not executed for the request
\* and neither the index nor the model is called.
C7_AsStated ==
    \A p \in Paths :
        \A i \in FiredAt(p) :
            /\ i < Len(trace[p]) => trace[p][i + 1].node = "finalize"
            /\ Executed(p) \cap MainNodes = {}
            /\ idxCalls[p] = 0
            /\ llmCalls[p] = 0

\* The part of C7 that both paths keep: once a guard has fired, summarize,
\* route, retrieve and generate are never executed, no collaborator is
\* called, and the path ends through finalize.
C7_SkipsPipeline ==
    \A p \in Paths :
        FiredAt(p) # {} =>
            /\ Executed(p) \cap MainNodes = {}
            /\ idxCalls[p] = 0
            /\ llmCalls[p] = 0
            /\ Done(p) => trace[p][Len(trace[p])].node = "finalize"

BothDone == Done("single") /\ Done("stream")
LastRecord == emitted[Len(emitted)]

\* C8, as stated: when both deliveries of a request have ended, they have
\* gone through the same sequence of states, both succeeded or both failed,
\* and on success the done record carries the answer text, query mode and
\* session summary of the single-shot response.
C8_AsStated ==
    BothDone =>
        /\ NodesOf("single") = NodesOf("stream")
        /\ (response.kind = "ok") <=> (LastRecord.t = "done")
        /\ response.kind = "ok" =>
              /\ response.answer = LastRecord.c
              /\ response.query_mode = LastRecord.query_mode
              /\ response.session_summary = LastRecord.session_summary

TermOf(p) == extract_definition_term(state[p].question)
TermInDocs(p) == term_appears_in_chunks(TermOf(p).term, state[p].retrieved_docs)

C10_AsStated ==
    \A p \in Paths :
        (/\ FiredAt(p) = {}
         /\ state[p].query_mode \in {"doc_only", "hybrid"}
         /\ "llm" \in Executed(p))
        => idxCalls[p] = 1

\* the query mode of the request of delivery d: what route_node stored, and
\* for the handler of POST /answer, which stores none, what get_query_mode
\* gives for the question
ModeOf(d) == IF d = "http" THEN get_query_mode(state[d].question) ELSE state[d].query_mode

\* C11, as stated: on every delivery of a request whose query mode is
\* json_only, once the retrieve step has been passed the index has not been
\* queried and the retrieved set is empty.
C11_AsStated ==
    \A d \in Deliveries :
        (ModeOf(d) = "json_only" /\ "retrieve" \in Executed(d))
        => (idxCalls[d] = 0 /\ state[d].retrieved_docs = <<>>)

\* The part of C11 that the graph keeps: retrieve_node is a no-op for
\* json_only on the single-shot and the streaming path.
C11_GraphRetrieveNoOp ==
    \A p \in Paths :
        (state[p].query_mode = "json_only" /\ "retrieve" \in Executed(p))
        => (idxCalls[p] = 0 /\ state[p].retrieved_docs = <<>>)

Terminal(r) == r.t \in {"done", "error"}

-----------------------------------------------------------------------------
(* Claims about errors during a run *)

\* the documents whose processing raised in the run in progress or just ended
Raised == {s \in Sources : <<"processing", s>> \in Range(result.errors)}

\* C13: a document's processing has raised exactly when the error list of
\* the run names it, once; and a run of sync() or of force_reingest() over
\* all files that has ended has processed every file of the folder, whether
\* or not the processing of another file raised, its error list holding one
\* entry per document that raised.
C13_ErrorsDoNotAbort ==
    /\ \A s \in Sources : (outcome[s] = "error") <=> (s \in Raised)
    /\ Len(result.errors) = Cardinality(Raised)
    /\ lastRun.kind \in {"sync", "force_all"} =>
          \A s \in DOMAIN lastRun.files :
              /\ lastRun.status[s] # "none"
              /\ lastRun.outcome[s] # "none"
    /\ lastRun.kind # "none" =>
          lastRun.nerrors = Cardinality({s \in Sources : lastRun.outcome[s] = "error"})

\* After the add of one document raised, another document of the same run
\* has been added and is being registered.
C13_Witness ==
    \E s \in Sources :
        /\ outcome[s] = "error"
        /\ pc = "register"
        /\ cur # <<>>
        /\ cur[1] # s
        /\ runKind \in {"sync", "force_all"}

\* the failures of index operations during the last run
FaultsOfLastRun == lastRun.nfaults - prevRun.nfaults

\* C14, as stated: when a run has ended, every add or delete against the
\* index that failed during the run is in the error list of the run, and a
\* document whose processing failed is not in the registry afterwards.
C14_AsStated ==
    lastRun.kind # "none" =>
        /\ lastRun.nerrors = FaultsOfLastRun
        /\ \A s \in Sources :
              lastRun.outcome[s] = "error" => s \notin DOMAIN lastRun.after

\* the documents from which the last run, a sync, extracted no entry
NoChunkDocs ==
    IF pc = "idle" /\ lastRun.kind = "sync"
    THEN {s \in DOMAIN lastRun.files : lastRun.outcome[s] = "no_chunks"}
    ELSE {}

\* the entries of the index that the record of s listed when the last run
\* began; the index the run began with is the one the run before left
EntriesAtStart(s) == RecordIds(lastRun.before, s) \cap DOMAIN prevRun.indexAfter

RecordOf(r, s) == IF s \in DOMAIN r THEN <<r[s]>> ELSE <<>>

\* C15, as stated: for a NEW or UPDATED document from which a sync run
\* extracted no entry, the step was a no-op (the registry record and the
\* index entries of the document are as they were when the run began), the
\* document is not registered under its bytes, it was counted neither as new
\* nor as updated, and the next run does not skip it as UNCHANGED.
C15_AsStated ==
    \A s \in NoChunkDocs :
        /\ lastRun.status[s] \in {"new", "updated"}
        /\ RecordOf(lastRun.after, s) = RecordOf(lastRun.before, s)
        /\ EntriesAtStart(s) \subseteq DOMAIN lastRun.indexAfter
        /\ get_status(lastRun.after, s, compute_hash(lastRun.files[s])) # "unchanged"
        /\ result.new_documents + result.updated_documents =
               Cardinality({t \in Sources : lastRun.outcome[t] \in {"new", "updated"}})

\* The part of C15 that holds: register is not called for the document, no
\* counter of new or updated documents is incremented for it, and the next
\* run processes it again.
C15_NotASuccess ==
    \A s \in NoChunkDocs :
        /\ lastRun.status[s] \in {"new", "updated"}
        /\ RecordOf(lastRun.after, s) = RecordOf(lastRun.before, s)
        /\ get_status(lastRun.after, s, compute_hash(lastRun.files[s])) # "unchanged"
        /\ result.new_documents + result.updated_documents =
               Cardinality({t \in Sources : lastRun.outcome[t] \in {"new", "updated"}})

\* the documents the last run ingested although the registry listed them
\* when the run was called
ReIngested ==
    IF pc = "idle" /\ lastRun.kind # "none"
    THEN {s \in DOMAIN lastRun.before : lastRun.outcome[s] \in {"new", "updated"}}
    ELSE {}

\* C16, as stated: a registered version is at least 1; a run that ingests a
\* document the registry listed, through sync of changed bytes or through
\* force_reingest, leaves it with the old version + 1; and no run leaves a
\* document with a lower version than it had.
C16_AsStated ==
    /\ \A s \in DOMAIN records : records[s].version >= 1
    /\ \A s \in ReIngested :
          /\ s \in DOMAIN lastRun.after
          /\ lastRun.after[s].version = lastRun.before[s].version + 1
    /\ (pc = "idle" /\ lastRun.kind # "none") =>
          \A s \in (DOMAIN lastRun.before) \cap (DOMAIN lastRun.after) :
              lastRun.after[s].version >= lastRun.before[s].version

\* The part of C16 that holds: versions are at least 1, and a sync run that
\* ingests a listed document leaves it with the old version + 1.
C16_SyncIncrements ==
    /\ \A s \in DOMAIN records : records[s].version >= 1
    /\ \A s \in ReIngested :
          lastRun.kind = "sync" =>
              /\ s \in DOMAIN lastRun.after
              /\ lastRun.after[s].version = lastRun.before[s].version + 1

-----------------------------------------------------------------------------
(* Claims about postprocess *)

Positions(lst, key) == {i \in 1..Len(lst) : _source_page_key(lst[i]) = key}
SortedAscending(lst) ==
    \A i, j \in 1..Len(lst) : i < j => _chunk_distance(lst[i]) <= _chunk_distance(lst[j])

\* chunks of different (source, page) groups with equal distances
TiesAcrossGroups(lst) ==
    \E i, j \in 1..Len(lst) :
        /\ _source_page_key(lst[i]) # _source_page_key(lst[j])
        /\ _chunk_distance(lst[i]) = _chunk_distance(lst[j])

\* C18, as stated: with no threshold, the second call returns the list the
\* first call returned, element for element and in the same order, for every
\* chunk list, lists with equal distances in different groups included.
C18_AsStated ==
    (pp_max_distance = NoDistance /\ pp_passes = 2) => pp_result = pp_previous

\* The part of C18 that holds: the second call returns the same chunks, in
\* ascending order of distance, and the same list when no two chunks of
\* different groups have equal distances.
C18_SameChunks ==
    (pp_max_distance = NoDistance /\ pp_passes = 2) =>
        /\ SeqToSet(pp_result) = SeqToSet(pp_previous)
        /\ Len(pp_result) = Len(pp_previous)
        /\ SortedAscending(pp_result)
        /\ ~TiesAcrossGroups(pp_chunks) => pp_result = pp_previous

\* the (source, page) groups of the chunk list that have at least 3 chunks,
\* all of different distances
BigGroups(lst) ==
    {key \in PageKeys :
        /\ Cardinality(Positions(lst, key)) >= 3
        /\ \A i, j \in Positions(lst, key) :
               i # j => _chunk_distance(lst[i]) # _chunk_distance(lst[j])}

\* the n chunks of the group with the lowest distances
Lowest(lst, key, n) ==
    {lst[i] : i \in {i \in Positions(lst, key) :
        Cardinality({j \in Positions(lst, key) :
            _chunk_distance(lst[j]) < _chunk_distance(lst[i])}) < n}}

-----------------------------------------------------------------------------
(* Claims about missing_geometry_layers *)

\* the objects whose layer name is the required layer, whatever the case
Carrying(objs, l) == {i \in 1..Len(objs) : LayerLower(_layer_name(objs[i])) = LayerLower(l)}

\* the objects whose layer name _layer_matches accepts for the required layer
Matching(objs, l) == {i \in 1..Len(objs) : _layer_matches(_layer_name(objs[i]), {l})}

\* C20, as stated: a layer in the result is a required layer, at least one
\* object carries that layer, and every object on that layer lacks usable
\* coordinates.
C20_AsStated ==
    mg_called =>
        \A l \in Range(mg_missing) :
            /\ l \in mg_required
            /\ Carrying(mg_objects, l) # {}
            /\ \A i \in Carrying(mg_objects, l) : ~has_geometry(mg_objects[i])

\* C20 with "carries" read as _layer_matches reads it: a layer in the result
\* is a required layer, at least one object matches it, and every object
\* that matches it lacks usable coordinates.
C20_AsMatched ==
    mg_called =>
        \A l \in Range(mg_missing) :
            /\ l \in mg_required
            /\ Matching(mg_objects, l) # {}
            /\ \A i \in Matching(mg_objects, l) : ~has_geometry(mg_objects[i])

\* What holds: a layer in the result is a required layer that some object
\* matches, no object whose layer name is that layer has usable coordinates,
\* and when every object's layer name is a required layer or matches none,
\* the result is as C20 states.
C20_ExactNames ==
    mg_called =>
        /\ \A l \in Range(mg_missing) :
              /\ l \in mg_required
              /\ Matching(mg_objects, l) # {}
              /\ \A i \in Carrying(mg_objects, l) : ~has_geometry(mg_objects[i])
        /\ (\A i \in 1..Len(mg_objects) :
               \/ _layer_name(mg_objects[i]) \in mg_required
               \/ ~_layer_matches(_layer_name(mg_objects[i]), mg_required))
           => \A l \in Range(mg_missing) :
                 /\ Carrying(mg_objects, l) # {}
                 /\ \A i \in Carrying(mg_objects, l) : ~has_geometry(mg_objects[i])

-----------------------------------------------------------------------------
(* Claims about the routing functions *)

\* the question, stripped and lower-cased, contains a drawing-intent keyword
\* somewhere in its text
HasDrawingIntent(q) ==
    \E i \in 1..Len(q), k \in DRAWING_INTENT_KEYWORDS : Contains(Lower(q[i]), k)

\* the question starts with a definition prefix or contains a definition
\* pattern
MatchesDefinition(q) ==
    \/ AnyMatch(DEFINITION_PREFIXES, Normalize(q))
    \/ AnyMatch(DEFINITION_PATTERNS, Normalize(q))

\* C21: a question that contains a drawing-intent keyword is not doc_only,
\* also when it matches a definition pattern; a question is doc_only exactly
\* when it matches a definition pattern and contains no such keyword.
C21_DrawingIntentVeto ==
    rt_called =>
        /\ HasDrawingIntent(rt_question) => ~rt_doc_only
        /\ rt_doc_only <=> (MatchesDefinition(rt_question) /\ ~HasDrawingIntent(rt_question))

\* "What is wall?" has been classified: a definition prefix and a keyword
C21_Witness ==
    /\ rt_called
    /\ rt_question = <<"What", "is", "wall", "?">>
    /\ MatchesDefinition(rt_question)
    /\ HasDrawingIntent(rt_question)
    /\ ~rt_doc_only

\* the question matches a counting/listing pattern of routing.py: a json-only
\* prefix, a json-only pattern, or one of the three combined tests
MatchesCounting(q) ==
    LET n == Normalize(q)
    IN  \/ AnyMatch(JSON_ONLY_PREFIXES, n)
        \/ AnyMatch(JSON_ONLY_PATTERNS, n)
        \/ (Match(PhraseSp(<<"how", "many">>), n)
               /\ (Match(Kw("layer"), n) \/ Match(Kw("object"), n)))
        \/ Match(Phrase(<<"what", "layer">>), n)
        \/ Match(Phrase(<<"which", "layer">>), n)
        \/ (Match(PhraseSp(<<"what", "is", "the">>), n)
               /\ AnyMatch({PhraseSp(<<"width", "of">>), PhraseSp(<<"height", "of">>),
                            PhraseSp(<<"area", "of">>), PhraseSp(<<"name", "of">>)}, n))

-----------------------------------------------------------------------------
(* Claims about finalize and about failures of the generative model *)

\* the answer text finalize is to leave for the guard result of the state,
\* or the text of the generate step when no guard fired
ExpectedAnswers(s) ==
    CASE s.guard_result.type = "smalltalk" -> {get_smalltalk_response(s.question)}
      [] s.guard_result.type = "missing_geometry" ->
             {MissingGeometryMessage(s.guard_result.missing_layers)}
      [] s.guard_result.type = "needs_input" ->
             {build_needs_input_message(s.guard_result.missing_layers)}
      [] OTHER -> {Joined(env.llm.incs), DOC_ONLY_EMPTY_MESSAGE}

\* the answer-text half of C23: after finalize the state holds the message
\* of the guard that fired, or the text of the generate step
C23_AnswerText ==
    \A p \in Paths :
        "finalize" \in Executed(p) =>
            /\ state[p].answer_text # <<>>
            /\ state[p].answer_text \in ExpectedAnswers(state[p])

\* the session-summary half of C23 on the streaming path
C23_StreamSummary ==
    "finalize" \in Executed("stream") =>
        state["stream"].session_summary =
            <<compute_session_summary(request.session_objects)>>

\* C23, as stated: on every path, after finalize the state holds the answer
\* text (the message of the guard that fired, or the generated text) and a
\* session summary, computed in finalize when no earlier state computed it.
C23_AsStated ==
    \A p \in Paths :
        "finalize" \in Executed(p) =>
            /\ state[p].answer_text # <<>>
            /\ state[p].answer_text \in ExpectedAnswers(state[p])
            /\ state[p].session_summary =
                   <<compute_session_summary(request.session_objects)>>

\* the generative model was called on the path and the call failed
ModelFailed(p) == Done(p) /\ llmCalls[p] > 0 /\ env.llm.fail

\* C24: when the call of the generative model fails, the single-shot path
\* ends with the exception of the call, not with a response, and the
\* streaming path ends with an error record and never yields a done record;
\* a guard-produced answer ends neither way.
C24_ModelFailureSurfaces ==
    /\ ModelFailed("single") =>
          /\ response.kind = "error"
          /\ response.error = "Exception"
          /\ ~Fired(state["single"])
    /\ ModelFailed("stream") =>
          /\ LastRecord.t = "error"
          /\ \A i \in 1..Len(emitted) : emitted[i].t # "done"
          /\ ~Fired(state["stream"])
    /\ \A p \in Paths : (Done(p) /\ Fired(state[p])) =>
          IF p = "single" THEN response.error # "Exception" ELSE LastRecord.t = "done"

\* the streaming path has ended after the model failed behind an increment
C24_Witness ==
    /\ ModelFailed("stream")
    /\ sent = 1
    /\ Len(emitted) = 2
    /\ LastRecord.t = "error"

\* the single-shot path has ended after the model failed
C24_SingleReached ==
    /\ ModelFailed("single")
    /\ response.kind = "error"

-----------------------------------------------------------------------------
(* Claims about deletion and forced re-ingestion *)

\* a sync(delete_missing=true) run has ended
AfterDeleteMissing == pc = "idle" /\ lastRun.kind = "sync" /\ lastRun.delete_missing

\* the sources the registry listed when the run began that are not in the folder
Gone == (DOMAIN lastRun.before) \ (DOMAIN lastRun.files)

\* C25, as stated: a sync(delete_missing=true) run that reported no error
\* has removed the record of every registered source that is not in the
\* folder, deleted the entries that record listed from the index, and added
\* one to the deleted counter for each; afterwards no record is left for a
\* source that is not in the folder.
C25_AsStated ==
    (AfterDeleteMissing /\ lastRun.nerrors = 0) =>
        /\ \A s \in Gone :
              /\ s \notin DOMAIN records
              /\ lastRun.outcome[s] = "deleted"
              /\ RecordIds(lastRun.before, s) \cap DOMAIN index = {}
        /\ result.deleted_documents = Cardinality(Gone)
        /\ DOMAIN records \subseteq DOMAIN lastRun.files

\* The part of C25 that holds: the records are removed and counted, and the
\* entries are gone from the index when no index operation failed in the run.
C25_RecordsRemoved ==
    AfterDeleteMissing =>
        /\ \A s \in Gone :
              /\ s \notin DOMAIN records
              /\ lastRun.outcome[s] = "deleted"
              /\ FaultsOfLastRun = 0 => RecordIds(lastRun.before, s) \cap DOMAIN index = {}
        /\ result.deleted_documents = Cardinality(Gone)
        /\ DOMAIN records \subseteq DOMAIN lastRun.files

\* the document an index entry was cut from
SourceOf(i) == CHOOSE s \in Sources : Stem(s) = i[1]

\* force_reingest() over all documents is past its two clear calls
ForceAllCleared ==
    /\ runKind = "force_all"
    /\ pc # "vclear"
    /\ ~(pc = "save" /\ saveRet = "vclear")

\* C26: once force_reingest() with no source_id has cleared the registry and
\* the index, and until the next run, every entry of the index and every
\* record belongs to a document this run has taken up, every record has
\* version 1, and when the run has ended every entry of the index carries
\* the content the document had in this run.
C26_ForceAllStartsClean ==
    ForceAllCleared =>
        /\ \A i \in DOMAIN index : SourceOf(i) \notin todo
        /\ \A s \in DOMAIN records : s \notin todo /\ records[s].version = 1
        /\ pc = "idle" =>
              /\ lastRun.kind = "force_all"
              /\ \A i \in DOMAIN index :
                    /\ SourceOf(i) \in DOMAIN lastRun.files
                    /\ index[i] = compute_hash(lastRun.files[SourceOf(i)])
                    /\ lastRun.outcome[SourceOf(i)] = "new"

\* force_reingest() has ended over a folder whose registry listed documents
\* before, and an entry the index held before the run is gone
C26_Witness ==
    /\ pc = "idle"
    /\ lastRun.kind = "force_all"
    /\ lastRun.before # EmptyRegistry
    /\ records # EmptyRegistry
    /\ \E i \in DOMAIN prevRun.indexAfter : i \notin DOMAIN index

\* the step of sync(delete_missing=true) that calls get_deleted_sources
CallsDeletedSources == pc = "loop" /\ pc' = "dloop" /\ runKind = "sync" /\ delMissing

\* C27: every call of get_deleted_sources returns the sources that the
\* registry lists and the folder does not hold, no other and each once,
\* whether or not the registry or the folder is empty, and leaves the
\* registry as it is.
C27_DeletedSourcesExact ==
    [][CallsDeletedSources =>
          /\ \A s \in Sources : s \in dtodo' <=> (s \in DOMAIN records /\ s \notin DOMAIN files)
          /\ dtodo' \subseteq Sources
          /\ records' = records]_vars

\* get_deleted_sources has just returned one of two registered sources: the
\* file of the other is in the folder
C27_Witness ==
    /\ pc = "dloop" /\ runKind = "sync" /\ delMissing /\ cur = <<>>
    /\ Cardinality(DOMAIN records) = 2
    /\ Cardinality(dtodo) = 1
    /\ dtodo = (DOMAIN records) \ (DOMAIN files)

\* get_deleted_sources has returned nothing over an empty registry and an
\* empty folder
C27_EmptyReached ==
    /\ pc = "dloop" /\ runKind = "sync" /\ delMissing /\ cur = <<>>
    /\ records = EmptyRegistry
    /\ DOMAIN files = {}
    /\ dtodo = {}

-----------------------------------------------------------------------------
(* Further claims about postprocess *)

\* the place of a chunk of the output in the input list
InputIndex(c) == CHOOSE i \in 1..Len(pp_chunks) : pp_chunks[i] = c

\* pairs of places of the output that hold chunks of equal distance
TiedPairs ==
    {<<i, j>> \in (1..Len(pp_result)) \X (1..Len(pp_result)) :
        /\ i < j
        /\ _chunk_distance(pp_result[i]) = _chunk_distance(pp_result[j])}

\* C28, as stated: after a call, chunks of equal distance are in the output
\* in the order they had in the input, whether they are of the same
\* (source, page) group or not.
C28_AsStated ==
    pp_passes = 1 =>
        \A t \in TiedPairs : InputIndex(pp_result[t[1]]) < InputIndex(pp_result[t[2]])

\* The part of C28 that holds: chunks of equal distance of the same group
\* are in the output in the order they had in the input.
C28_WithinGroup ==
    pp_passes = 1 =>
        \A t \in TiedPairs :
            _source_page_key(pp_result[t[1]]) = _source_page_key(pp_result[t[2]])
                => InputIndex(pp_result[t[1]]) < InputIndex(pp_result[t[2]])

Unknown(c) == c.distance = NoDistance

\* the chunks of the group of the i-th input chunk that go before it: those
\* of lower distance, and those of equal distance that are earlier in the input
Ahead(i) ==
    {j \in Positions(pp_chunks, _source_page_key(pp_chunks[i])) :
        \/ _chunk_distance(pp_chunks[j]) < _chunk_distance(pp_chunks[i])
        \/ (_chunk_distance(pp_chunks[j]) = _chunk_distance(pp_chunks[i]) /\ j < i)}

\* in the output no chunk of unknown distance is before one of known distance
UnknownLast ==
    \A i, j \in 1..Len(pp_result) :
        (Unknown(pp_result[i]) /\ ~Unknown(pp_result[j])) => j < i

\* under a threshold the output holds no chunk above it and none of unknown
\* distance, and every chunk of the output is one of the input
ThresholdDrops ==
    \A c \in SeqToSet(pp_result) :
        /\ c \in SeqToSet(pp_chunks)
        /\ ~Unknown(c)
        /\ c.distance <= pp_max_distance

\* C29, as stated: under a finite threshold the call drops every chunk above
\* it and every chunk of unknown distance; with no threshold every chunk of
\* unknown distance is kept and comes after every chunk of known distance.
C29_AsStated ==
    pp_passes = 1 =>
        IF pp_max_distance # NoDistance
        THEN ThresholdDrops
        ELSE /\ \A i \in 1..Len(pp_chunks) :
                    Unknown(pp_chunks[i]) => pp_chunks[i] \in SeqToSet(pp_result)
             /\ UnknownLast

\* C29, amended: under a finite threshold the call drops every chunk above
\* it and every chunk of unknown distance; with no threshold a chunk of
\* unknown distance is kept exactly when fewer than MAX_CHUNKS_PER_PAGE
\* chunks of its (source, page) group go before it, and the chunks of
\* unknown distance come after every chunk of known distance.
C29_UnknownDistance ==
    pp_passes = 1 =>
        IF pp_max_distance # NoDistance
        THEN ThresholdDrops
        ELSE /\ \A i \in 1..Len(pp_chunks) :
                    Unknown(pp_chunks[i]) =>
                        (pp_chunks[i] \in SeqToSet(pp_result)
                            <=> Cardinality(Ahead(i)) < MAX_CHUNKS_PER_PAGE)
             /\ UnknownLast

\* a call with no threshold has kept a chunk of unknown distance behind one
\* of known distance and has dropped another for the cap of its page
C29_Witness ==
    /\ pp_passes = 1
    /\ pp_max_distance = NoDistance
    /\ \E i, j \in 1..Len(pp_result) : i < j /\ ~Unknown(pp_result[i]) /\ Unknown(pp_result[j])
    /\ \E i \in 1..Len(pp_chunks) :
          Unknown(pp_chunks[i]) /\ pp_chunks[i] \notin SeqToSet(pp_result)

\* a call under a threshold has dropped a chunk of unknown distance and kept
\* another chunk
C29_ThresholdReached ==
    /\ pp_passes = 1
    /\ pp_max_distance # NoDistance
    /\ pp_result # <<>>
    /\ \E i \in 1..Len(pp_chunks) : Unknown(pp_chunks[i])

-----------------------------------------------------------------------------
(* Claims about when the geometry guard fires *)

RefersToThisDrawing(q) == AnyMatch(THIS_DRAWING_PHRASES, Normalize(q))
IsGeneralRule(q) == AnyMatch(GENERAL_RULE_PHRASES, Normalize(q))
HasSpatialKeyword(q) == \E k \in SPATIAL_KEYWORDS : Match(Kw(k), Normalize(q))

\* the layers required for the question that have objects, all of them
\* without usable geometry
LayersLacking(q, objs) ==
    {l \in required_layers_for_question(q) :
        /\ Carrying(objs, l) # {}
        /\ \A i \in Carrying(objs, l) : ~has_geometry(objs[i])}

GuardSteps(d) == {i \in DOMAIN trace[d] : trace[d][i].node = "geometry_guard"}

\* C30, as stated: on every delivery, where the geometry guard has been
\* evaluated, it has fired if and only if the question refers to this drawing,
\* is not a general-rule question, contains a spatial keyword, and some layer
\* required for the question has objects all of which lack usable geometry;
\* a missing_geometry result names exactly those layers; and for a
\* general-rule question the guard has not fired.
C30_AsStated ==
    \A d \in Deliveries : \A i \in GuardSteps(d) :
        LET q == state[d].question
            objs == state[d].session_objects
            fired == trace[d][i].fired = "missing_geometry"
        IN  /\ fired <=> (/\ RefersToThisDrawing(q)
                          /\ ~IsGeneralRule(q)
                          /\ HasSpatialKeyword(q)
                          /\ LayersLacking(q, objs) # {})
            /\ (fired /\ state[d].guard_result.type = "missing_geometry")
               => Range(state[d].guard_result.missing_layers) = LayersLacking(q, objs)
            /\ IsGeneralRule(q) => ~fired

\* What the graph keeps of C30: on the single-shot and the streaming path the
\* guard fires exactly for a this-drawing, non-general, spatial question for
\* which missing_geometry_layers returns a layer, and never for a
\* general-rule question.
C30_GraphGuard ==
    \A p \in Paths : \A i \in GuardSteps(p) :
        LET q == state[p].question
            missing == missing_geometry_layers(state[p].session_objects,
                                               required_layers_for_question(q), env.order)
            fired == trace[p][i].fired = "missing_geometry"
        IN  /\ fired <=> (/\ RefersToThisDrawing(q)
                          /\ ~IsGeneralRule(q)
                          /\ HasSpatialKeyword(q)
                          /\ missing # <<>>)
            /\ IsGeneralRule(q) => ~fired

\* the handler of POST /answer has reported missing geometry for a
\* general-rule question
C30_HandlerFiredOnGeneralRule ==
    \E i \in GuardSteps("http") :
        /\ trace["http"][i].fired = "missing_geometry"
        /\ IsGeneralRule(state["http"].question)

\* the guard of a graph path has fired
C30_GraphFired ==
    \E p \in Paths : \E i \in GuardSteps(p) : trace[p][i].fired = "missing_geometry"

-----------------------------------------------------------------------------
(* Claims about the needs-input follow-up guard *)

\* the layers present in the session objects, with Highway and Plot Boundary
DefaultRequired(objs) ==
    ({_layer_name(objs[i]) : i \in 1..Len(objs)} \ {""}) \cup {"Highway", "Plot Boundary"}

\* the layers of the default required set that have objects, all of them
\* without usable geometry
DefaultLacking(objs) ==
    {l \in DefaultRequired(objs) :
        /\ Carrying(objs, l) # {}
        /\ \A i \in Carrying(objs, l) : ~has_geometry(objs[i])}

FollowupSteps(d) == {i \in DOMAIN trace[d] : trace[d][i].node = "followup"}

\* C31, as stated: on every delivery, where the follow-up guard has been
\* evaluated, it has fired if and only if the question matches a follow-up
\* phrase and some layer of the default required set has objects all of which
\* lack geometry; the needs_input result names exactly those layers; and
\* where it has not fired the next step of the request is summarize.
C31_AsStated ==
    \A d \in Deliveries : \A i \in FollowupSteps(d) :
        LET q == state[d].question
            objs == state[d].session_objects
            fired == trace[d][i].fired = "needs_input"
        IN  /\ fired <=> (is_needs_input_followup(q) /\ DefaultLacking(objs) # {})
            /\ fired => /\ state[d].guard_result.type = "needs_input"
                        /\ Range(state[d].guard_result.missing_layers) = DefaultLacking(objs)
            /\ (~fired /\ i < Len(trace[d])) => trace[d][i + 1].node = "summarize"

\* What the code keeps of C31: the guard fires exactly for a follow-up
\* question for which get_missing_geometry_layers returns a layer, with those
\* layers, sorted; where it abstains and no earlier guard has fired the next
\* step is summarize.
C31_FollowupGuard ==
    \A d \in Deliveries : \A i \in FollowupSteps(d) :
        LET q == state[d].question
            missing == get_missing_geometry_layers(state[d].session_objects, env.order)
            fired == trace[d][i].fired = "needs_input"
        IN  /\ fired <=> (is_needs_input_followup(q) /\ missing # <<>>)
            /\ fired => state[d].guard_result = Guard("needs_input", missing)
            /\ (~fired /\ i < Len(trace[d]) /\ \A j \in 1..i : trace[d][j].fired = "none")
               => trace[d][i + 1].node = "summarize"

\* the follow-up guard has fired on a delivery
C31_FollowupFired ==
    \E d \in Deliveries : \E i \in FollowupSteps(d) : trace[d][i].fired = "needs_input"

\* the follow-up guard has abstained on a follow-up question although a layer
\* of the session has objects none of which has geometry
C31_AbstainedOnLackingLayer ==
    \E d \in Deliveries : \E i \in FollowupSteps(d) :
        /\ trace[d][i].fired = "none"
        /\ is_needs_input_followup(state[d].question)
        /\ DefaultLacking(state[d].session_objects) # {}

-----------------------------------------------------------------------------
(* Claims about the guards as functions of the request *)

\* the guard results a request can get from the two guards that read the
\* session objects, under the enumeration order o of the required layers
GeometryResult(q, objs, o) ==
    geometry_guard_node(InitialState(q, objs, FALSE), o).guard_result

FollowupResult(q, objs, o) ==
    followup_node(InitialState(q, objs, FALSE), o).guard_result

\* C32, as stated: the result each guard has given on a graph path is the
\* result it gives for the same question and session objects under every
\* enumeration order of the required layers.
C32_AsStated ==
    \A p \in Paths : \A o \in LayerOrders :
        LET q == request.question
            objs == request.session_objects
        IN  /\ \A i \in GuardSteps(p) :
                   trace[p][i].fired = GeometryResult(q, objs, o).type
            /\ \A i \in FollowupSteps(p) :
                   trace[p][i].fired = FollowupResult(q, objs, o).type
            /\ (Done(p) /\ state[p].guard_result.type = "missing_geometry")
               => state[p].guard_result = GeometryResult(q, objs, o)
            /\ (Done(p) /\ state[p].guard_result.type = "needs_input")
               => state[p].guard_result = FollowupResult(q, objs, o)

\* What holds of C32: whether a guard fires, and with which layers, is fixed
\* by the question, the session objects and the enumeration order together.
C32_FixedByOrder ==
    \A p \in Paths :
        LET q == request.question
            objs == request.session_objects
        IN  /\ \A i \in GuardSteps(p) :
                   trace[p][i].fired = GeometryResult(q, objs, env.order).type
            /\ \A i \in FollowupSteps(p) :
                   trace[p][i].fired = FollowupResult(q, objs, env.order).type
            /\ (Done(p) /\ state[p].guard_result.type = "missing_geometry")
               => state[p].guard_result = GeometryResult(q, objs, env.order)
            /\ (Done(p) /\ state[p].guard_result.type = "needs_input")
               => state[p].guard_result = FollowupResult(q, objs, env.order)

\* a path has ended with a missing_geometry result that another enumeration
\* order would have given with other layers
C32_OrderDecides ==
    \E p \in Paths : \E o \in LayerOrders :
        /\ Done(p)
        /\ state[p].guard_result.type = "missing_geometry"
        /\ GeometryResult(request.question, request.session_objects, o).type = "missing_geometry"
        /\ GeometryResult(request.question, request.session_objects, o) # state[p].guard_result

-----------------------------------------------------------------------------
(* Further claims about the registry and the index *)

\* the entry ids the record of source s lists
ListedIds(r, s) == SeqToSet(get_chunk_ids(r, s))

AfterRun == pc = "idle" /\ ~crashed /\ lastRun.kind # "none"

\* C35, as stated: after a completed sync or force_reingest run every entry
\* id listed in a registry record is in the index.
C35_AsStated ==
    AfterRun => \A s \in DOMAIN records : ListedIds(records, s) \subseteq DOMAIN index

\* What holds of C35: after a completed run the ids of every record that the
\* run registered are in the index.
C35_RegisteredInRun ==
    AfterRun =>
        \A s \in DOMAIN records :
            lastRun.outcome[s] \in {"new", "updated"}
            => ListedIds(records, s) \subseteq DOMAIN index

\* a run has registered a document
C35_SomeRegistered ==
    AfterRun /\ \E s \in DOMAIN records : lastRun.outcome[s] \in {"new", "updated"}

\* the registered documents the completed force_reingest(source_id) run processed
ForcedRegistered ==
    IF pc = "idle" /\ ~crashed /\ lastRun.kind = "force_one"
    THEN {s \in DOMAIN lastRun.before : lastRun.status[s] # "none"}
    ELSE {}

\* the entries of source s in the index that its record does not list
Unlisted(s) == {i \in DOMAIN index : SourceOf(i) = s /\ i \notin RecordIds(records, s)}

\* C36, as stated: after force_reingest(source_id) of a registered document
\* the index holds no entry of that source that its registry record does not
\* list.
C36_AsStated == \A s \in ForcedRegistered : Unlisted(s) = {}

\* What holds of C36: after a force_reingest(source_id) that re-registered a
\* registered document, the entries of its new record are in the index, and
\* an entry of the source that the record does not list was in the index
\* before the run.
C36_NewEntriesIndexed ==
    \A s \in ForcedRegistered :
        /\ lastRun.outcome[s] = "new" => RecordIds(records, s) \subseteq DOMAIN index
        /\ Unlisted(s) \subseteq DOMAIN prevRun.indexAfter

\* force_reingest(source_id) has left an entry of the previous version in the
\* index although it reported no error and no index operation failed
C36_StaleEntryLeft ==
    \E s \in ForcedRegistered :
        /\ lastRun.outcome[s] = "new"
        /\ lastRun.nerrors = 0 /\ lastRun.nfaults = 0
        /\ Unlisted(s) \cap RecordIds(lastRun.before, s) # {}

\* a sync(delete_missing=false) call is in progress
SyncKeeping == runKind = "sync" /\ ~delMissing /\ pc # "idle"

\* the entries of source s in the index ix
EntriesOf(ix, s) == {i \in DOMAIN ix : SourceOf(i) = s}

\* C37: at every point of a sync(delete_missing=false) call no registry
\* record has been removed, the record and the index entries of every source
\* that is not in the folder are as they were when the call began, and the
\* deleted counter is 0.
C37_KeepsMissingSources ==
    SyncKeeping =>
        /\ DOMAIN startRecs \subseteq DOMAIN records
        /\ \A s \in Sources \ DOMAIN files :
              /\ (s \in DOMAIN startRecs) = (s \in DOMAIN records)
              /\ s \in DOMAIN startRecs => records[s] = startRecs[s]
              /\ EntriesOf(index, s) = EntriesOf(lastRun.indexAfter, s)
              /\ \A i \in EntriesOf(index, s) : index[i] = lastRun.indexAfter[i]
        /\ result.deleted_documents = 0
        /\ dtodo = {}

\* a sync(delete_missing=false) call is about to return with the record and
\* the entries of a source that is gone from the folder
C37_Witness ==
    /\ SyncKeeping /\ pc = "dloop"
    /\ \E s \in Sources \ DOMAIN files :
          s \in DOMAIN records /\ EntriesOf(index, s) # {}

\* sync is processing a document for which the registry had no record
ProcessingUnrecorded ==
    /\ runKind = "sync" /\ ~crashed
    /\ cur # <<>> /\ curOld = <<>>
    /\ pc \in {"delete_old", "extract", "register"}

\* C38: a document that sync finds without a registry record is processed as
\* NEW; no step of its processing removes an entry from the index, and the
\* add step puts the ids that chunk_pages derives from the file into it.
C38_NewWithoutDelete ==
    [][ProcessingUnrecorded =>
           /\ curStatus = "new"
           /\ pc # "delete_old"
           /\ DOMAIN index \subseteq DOMAIN index'
           /\ pc' = "register" =>
                  DOMAIN index' = DOMAIN index \cup
                      SeqToSet(chunk_pages(cur[1], extract_text_from_pdf(files[cur[1]])))]_vars

\* the registry was reset to empty by a failed load, and sync is about to add
\* the entries of a document that has no record while entries of it are
\* still in the index
C38_Witness ==
    /\ boot.log = "warning: Failed to load registry, starting fresh"
    /\ ProcessingUnrecorded /\ pc = "extract"
    /\ EntriesOf(index, cur[1]) # {}

\* the same document after the add, about to be registered
C38_Readded ==
    /\ boot.log = "warning: Failed to load registry, starting fresh"
    /\ ProcessingUnrecorded /\ pc = "register"
    /\ EntriesOf(index, cur[1]) # {}

-----------------------------------------------------------------------------
(* Claims about the text of a streamed response *)

\* the text of the chunk records of recs, concatenated in emission order
RECURSIVE ChunkText(_)
ChunkText(recs) ==
    IF recs = <<>> THEN <<>>
    ELSE (IF Head(recs).t = "chunk" THEN Head(recs).c ELSE <<>>) \o ChunkText(Tail(recs))

EndedWithDone == Len(emitted) >= 1 /\ LastRecord.t = "done"

\* C39: when the streamed response has ended with a done record, the text of
\* its chunk records, concatenated in emission order, is the answer of the
\* done record.
C39_ChunksMakeAnswer == EndedWithDone => ChunkText(emitted) = LastRecord.c

\* a generation of two increments has ended with a done record
C39_Witness ==
    /\ EndedWithDone
    /\ ~Fired(state["stream"])
    /\ Len(emitted) = 3
    /\ LastRecord.c = <<"t1", "t2">>

\* a guard path has ended with a done record
C39_GuardReached == EndedWithDone /\ Fired(state["stream"]) /\ LastRecord.c # <<>>

\* the doc-only not-found path has ended with a done record
C39_NotFoundReached ==
    /\ EndedWithDone
    /\ ~Fired(state["stream"])
    /\ llmCalls["stream"] = 0
    /\ LastRecord.c = DOC_ONLY_EMPTY_MESSAGE

-----------------------------------------------------------------------------
(* Claims about overlapping sync calls *)

BothReturned == \A w \in Workers : ov_pc[w] = "done"

\* C33: a call that returns with a record it registered listing an entry id
\* that is not in the index has overlapped with the other call; calls that
\* are serialized do not reach that state.
C33_OnlyWhenOverlapping == \A w \in Workers : ov_bad[w] => ov_overlap

\* two overlapping calls have both returned, no index operation has failed,
\* and a record that one of them registered lists an entry id that the other
\* has deleted from the index
C33_Witness ==
    /\ BothReturned /\ ov_overlap /\ ov_faults = 0
    /\ \E w \in Workers : \E s \in ov_registered[w] :
          /\ ov_shared => ov_regBy[s] = w
          /\ \E i \in OvDangling(w, s) : ov_deleter[i] = Other(w)

\* the same with the record in the registry file: the call that wrote the
\* file last registered a document whose record lists an entry id that the
\* other call has deleted
C33_PersistedWitness ==
    /\ BothReturned /\ ov_overlap /\ ov_faults = 0 /\ ov_writer # 0
    /\ \E s \in ov_registered[ov_writer] \cap DOMAIN ov_disk.data :
          /\ ov_disk.data[s] = ov_mem[ov_writer][s]
          /\ ov_regBy[s] = ov_writer
          /\ \E i \in OvDangling(ov_writer, s) : ov_deleter[i] = Other(ov_writer)

\* C34: with separate registry instances, once a call has saved, the registry
\* file holds exactly the records of the instance that wrote last.
C34_LastWriterWins ==
    (~ov_shared /\ ov_writer # 0) => ov_disk = DiskComplete(ov_mem[ov_writer])

\* both calls have returned, and a record that only the instance that did
\* not write last has registered is not in the file
C34_Witness ==
    /\ BothReturned /\ ~ov_shared /\ ov_writer # 0 /\ ov_faults = 0
    /\ \E s \in ov_registered[Other(ov_writer)] \ ov_registered[ov_writer] :
          /\ s \in DOMAIN ov_mem[Other(ov_writer)]
          /\ s \notin DOMAIN ov_disk.data

====
